---- MODULE Spec2Model ----
(***************************************************************************)
(* Rate limiting and circuit breaker subsystem of the agent server         *)
(* (apps/agno-agents/shared/rate_limiter.py).                              *)
(*                                                                         *)
(* Time is kept in clock ticks, Resolution ticks to the second, so that    *)
(* the float clock of the local backend (time.time()) and the integer      *)
(* clock of the distributed backend (int(time.time())) are both computed   *)
(* from one clock.                                                         *)
(***************************************************************************)
EXTENDS Integers, Sequences, FiniteSets, TLC

VARIABLES
    clock,               \* time.time(), in ticks
    advances,            \* number of times the clock was moved
    redis_client,        \* RateLimiter.redis_client: is a distributed client configured
    fallback_to_memory,  \* RateLimiter.fallback_to_memory
    memory_store,        \* RateLimiter.memory_store: key -> list of timestamps
    redis_store,         \* the distributed store: key -> [count, expire_at]
    config,              \* the RateLimitConfig of the agent route
    history,             \* every check_rate_limit call made so far, with its outcome
    failure_threshold,   \* CircuitBreaker.failure_threshold
    recovery_timeout,    \* CircuitBreaker.recovery_timeout
    failure_count,       \* CircuitBreaker.failure_count
    last_failure_time,   \* CircuitBreaker.last_failure_time
    state,               \* CircuitBreaker.state
    breaker_log,         \* what the CircuitBreaker calls made so far have shown
    status_log,          \* what the get_rate_limit_status calls made so far have shown
    pending,             \* the check_rate_limit call awaiting the store's answer, if any
    asking,              \* the get_rate_limit_status call awaiting the store's answer, if any
    streams,             \* protected workflows started by handle_request and not finished
    gate_log,            \* what the requests handled so far have shown
    tasks                \* the concurrent check_rate_limit calls and how far each has come

limiter_vars == <<redis_client, fallback_to_memory, memory_store, redis_store, config, history>>
breaker_vars == <<failure_threshold, recovery_timeout, failure_count, last_failure_time,
                  state, breaker_log>>
gate_vars == <<status_log, asking, pending, streams, gate_log, tasks>>
vars == <<clock, advances, limiter_vars, breaker_vars, gate_vars>>

----------------------------------------------------------------------------
(* Bounds of the exploration *)

MaxCalls == 4        \* check_rate_limit calls in one behaviour
MaxAdvances == 3     \* clock movements in one behaviour
MaxLimit == 2        \* largest threshold of a config
MaxThreshold == 3    \* largest failure_threshold of a breaker
MaxOps == 6          \* CircuitBreaker calls in one behaviour
MaxStatus == 2       \* get_rate_limit_status calls in one behaviour
MaxRequests == 7     \* requests one handler receives in one behaviour
MaxStreams == 1      \* streams in flight when a request arrives
MaxWaits == 1        \* clock movements between the requests of one behaviour
MaxTasks == 2        \* check_rate_limit calls in flight at once

----------------------------------------------------------------------------
(* Time *)

Resolution == 10                      \* clock ticks in one second
Ticks(seconds) == seconds * Resolution
IntTime(t) == t \div Resolution       \* int(time.time())

MinuteSeconds == 60
HourSeconds == 3600
DaySeconds == 86400

\* Optional[int]
None == <<>>
Some(x) == <<x>>

Min2(a, b) == IF a <= b THEN a ELSE b
Max2(a, b) == IF a >= b THEN a ELSE b
Min3(a, b, c) == Min2(a, Min2(b, c))

----------------------------------------------------------------------------
(* RateLimitConfig, RateLimitResult *)

DefaultBurstLimit == 10
DefaultWindowSize == 60

RateLimitConfig(rpm, rph, rpd, ws, en) ==
    [requests_per_minute |-> rpm, requests_per_hour |-> rph, requests_per_day |-> rpd,
     burst_limit |-> DefaultBurstLimit, window_size |-> ws, enabled |-> en]

RateLimitResult(allowed, remaining, reset_time, retry_after) ==
    [allowed |-> allowed, remaining |-> remaining, reset_time |-> reset_time,
     retry_after |-> retry_after]

\* RateLimitType values and the subjects of the exploration
Subjects == {<<"user", "u1">>, <<"ip", "u1">>}

----------------------------------------------------------------------------
(* Local backend: a sliding log of timestamps per subject *)

MemoryKeyByValue(limit_type, limit_value) == <<"subject", limit_value>>
MemoryKey(limit_type, limit_value) == <<limit_type, limit_value>>

MemoryLog(store, key) == IF key \in DOMAIN store THEN store[key] ELSE <<>>

\* [timestamp for timestamp in log if timestamp > cutoff_time]
CleanOldEntriesInverted(log, cutoff_time) == SelectSeq(log, LAMBDA ts : ts < cutoff_time)
CleanOldEntries(log, cutoff_time) == SelectSeq(log, LAMBDA ts : ts > cutoff_time)

\* len(self.memory_store[key]) >= config.requests_per_minute
LimitExceededOffByOne(count, limit) == count > limit
LimitExceeded(count, limit) == count >= limit

\* _check_memory_rate_limit at clock value now: the store and the result it leaves
CheckMemoryRateLimitCountingBefore(store, key, cfg, now) ==
    LET cutoff_time == now - Ticks(cfg.window_size)
        cleaned == CleanOldEntries(MemoryLog(store, key), cutoff_time)
        reset_time == IntTime(now + Ticks(cfg.window_size))
    IN  IF LimitExceeded(Len(cleaned), cfg.requests_per_minute)
        THEN [store  |-> (key :> cleaned) @@ store,
              result |-> RateLimitResult(FALSE, 0, reset_time, Some(cfg.window_size))]
        ELSE LET appended == Append(cleaned, now)
                 remaining == cfg.requests_per_minute - Len(cleaned)
             IN  [store  |-> (key :> appended) @@ store,
                  result |-> RateLimitResult(TRUE, Max2(0, remaining), reset_time, None)]
CheckMemoryRateLimit(store, key, cfg, now) ==
    LET cutoff_time == now - Ticks(cfg.window_size)
        cleaned == CleanOldEntries(MemoryLog(store, key), cutoff_time)
        reset_time == IntTime(now + Ticks(cfg.window_size))
    IN  IF LimitExceeded(Len(cleaned), cfg.requests_per_minute)
        THEN [store  |-> (key :> cleaned) @@ store,
              result |-> RateLimitResult(FALSE, 0, reset_time, Some(cfg.window_size))]
        ELSE LET appended == Append(cleaned, now)
                 remaining == cfg.requests_per_minute - Len(appended)
             IN  [store  |-> (key :> appended) @@ store,
                  result |-> RateLimitResult(TRUE, Max2(0, remaining), reset_time, None)]

----------------------------------------------------------------------------
(* Distributed backend: epoch-aligned bucket counters in the shared store *)

\* f"rate_limit:{limit_type.value}:{limit_value}:{window}:{bucket}"
RedisKey(limit_type, limit_value, window, bucket) ==
    <<"rate_limit", limit_type, limit_value, window, bucket>>

\* the store as a client sees it at clock value now: expired keys are gone
RedisLive(store, now) ==
    LET live == {k \in DOMAIN store :
                    store[k].expire_at = None \/ store[k].expire_at[1] > now}
    IN  [k \in live |-> store[k]]

\* INCR: creates the key at 1 without a TTL, or adds one and keeps the TTL
RedisIncr(store, k) ==
    IF k \in DOMAIN store
    THEN [store EXCEPT ![k].count = @ + 1]
    ELSE (k :> [count |-> 1, expire_at |-> None]) @@ store

\* EXPIRE: the key dies ttl seconds from now
RedisExpire(store, k, ttl, now) ==
    IF k \in DOMAIN store
    THEN [store EXCEPT ![k].expire_at = Some(now + Ticks(ttl))]
    ELSE store

\* GET: None (0 after "or 0") for a missing key
RedisGet(store, k) == IF k \in DOMAIN store THEN store[k].count ELSE 0

\* pipe.incr(key); pipe.expire(key, ttl)
IncrExpire(store, k, ttl, now) == RedisExpire(RedisIncr(store, k), k, ttl, now)

\* the batch of _check_redis_rate_limit, applied at clock value clk:
\* the store it leaves and the three counts it returns
CheckPipeline(store, limit_type, limit_value, clk) ==
    LET now == IntTime(clk)
        minute_key == RedisKey(limit_type, limit_value, "minute", now \div MinuteSeconds)
        hour_key == RedisKey(limit_type, limit_value, "hour", now \div HourSeconds)
        day_key == RedisKey(limit_type, limit_value, "day", now \div DaySeconds)
        s0 == RedisLive(store, clk)
        s1 == IncrExpire(s0, minute_key, MinuteSeconds, clk)
        s2 == IncrExpire(s1, hour_key, HourSeconds, clk)
        s3 == IncrExpire(s2, day_key, DaySeconds, clk)
    IN  [store  |-> s3,
         counts |-> <<s3[minute_key].count, s3[hour_key].count, s3[day_key].count>>]

\* minute_count > rpm or hour_count > rph or day_count > rpd
OverLimitMinuteOnly(counts, cfg) == counts[1] > cfg.requests_per_minute
OverLimit(counts, cfg) ==
    \/ counts[1] > cfg.requests_per_minute
    \/ counts[2] > cfg.requests_per_hour
    \/ counts[3] > cfg.requests_per_day

\* retry_after of a denied check
RetryAfter(counts, cfg) ==
    IF counts[1] > cfg.requests_per_minute THEN Some(MinuteSeconds)
    ELSE IF counts[2] > cfg.requests_per_hour THEN Some(HourSeconds)
    ELSE IF counts[3] > cfg.requests_per_day THEN Some(DaySeconds)
    ELSE None

\* retry_after or 60
OrSixty(retry_after) ==
    IF retry_after = None \/ retry_after = Some(0) THEN MinuteSeconds ELSE retry_after[1]

\* the part of _check_redis_rate_limit after pipe.execute() returned counts
RedisResult(counts, cfg, clk) ==
    LET now == IntTime(clk)
    IN  IF OverLimit(counts, cfg)
        THEN LET retry_after == RetryAfter(counts, cfg)
             IN  RateLimitResult(FALSE, 0, now + OrSixty(retry_after), retry_after)
        ELSE LET remaining == Min3(cfg.requests_per_minute - counts[1],
                                   cfg.requests_per_hour - counts[2],
                                   cfg.requests_per_day - counts[3])
             IN  RateLimitResult(TRUE, Max2(0, remaining), now + MinuteSeconds, None)

----------------------------------------------------------------------------
(* RateLimiter.check_rate_limit *)

\* what the distributed store does with one batch
\*   "ok":          applies it and answers
\*   "raise":       raises before applying anything
\*   "raise_after": applies it, and the answer is lost (the client raises)
StoreOutcomes == {"ok", "raise", "raise_after"}

\* the result of the enabled=false path and of the fail-open path
AllowAll(cfg, clk) ==
    RateLimitResult(TRUE, cfg.requests_per_minute,
                    IntTime(clk + Ticks(cfg.window_size)), None)

\* the except branch of check_rate_limit
OnBackendErrorFailOpen(mem, red, fallback, key, cfg, clk) ==
    [memory_store |-> mem, redis_store |-> red, counts |-> <<>>,
     path |-> "fail_open", result |-> AllowAll(cfg, clk)]
OnBackendErrorFallBack(mem, red, fallback, key, cfg, clk) ==
    LET m == CheckMemoryRateLimit(mem, key, cfg, clk)
    IN  [memory_store |-> m.store, redis_store |-> red, counts |-> <<>>,
         path |-> "fallback", result |-> m.result]
OnBackendError(mem, red, fallback, key, cfg, clk) ==
    IF fallback
    THEN LET m == CheckMemoryRateLimit(mem, key, cfg, clk)
         IN  [memory_store |-> m.store, redis_store |-> red, counts |-> <<>>,
              path |-> "fallback", result |-> m.result]
    ELSE [memory_store |-> mem, redis_store |-> red, counts |-> <<>>,
          path |-> "fail_open", result |-> AllowAll(cfg, clk)]

\* the try block of check_rate_limit and its except branch, for a call that
\* reads now and sends its batch at clk and that the event loop resumes, with
\* the counts or with the store's exception, at resumed; the local check has
\* no suspension point and runs at clk
CheckAwaited(mem, red, client, fallback, limit_type, limit_value, cfg, clk, resumed, outcome) ==
    LET key == MemoryKey(limit_type, limit_value)
    IN  IF client
        THEN LET p == CheckPipeline(red, limit_type, limit_value, clk)
             IN  CASE outcome = "ok" ->
                        [memory_store |-> mem, redis_store |-> p.store, counts |-> p.counts,
                         path |-> "redis", result |-> RedisResult(p.counts, cfg, clk)]
                   [] outcome = "raise" ->
                        OnBackendError(mem, red, fallback, key, cfg, resumed)
                   [] outcome = "raise_after" ->
                        OnBackendError(mem, p.store, fallback, key, cfg, resumed)
        ELSE LET m == CheckMemoryRateLimit(mem, key, cfg, clk)
             IN  [memory_store |-> m.store, redis_store |-> red, counts |-> <<>>,
                  path |-> "memory", result |-> m.result]

\* the try block and its except branch for a call resumed at the clock
\* reading it was suspended at
CheckEnabled(mem, red, client, fallback, limit_type, limit_value, cfg, clk, outcome) ==
    CheckAwaited(mem, red, client, fallback, limit_type, limit_value, cfg, clk, clk,
                 outcome)

\* check_rate_limit(limit_type, limit_value, config) at clock value clk
CheckIgnoringEnabled(mem, red, client, fallback, limit_type, limit_value, cfg, clk, outcome) ==
    CheckEnabled(mem, red, client, fallback, limit_type, limit_value, cfg, clk, outcome)
Check(mem, red, client, fallback, limit_type, limit_value, cfg, clk, outcome) ==
    IF ~cfg.enabled
    THEN [memory_store |-> mem, redis_store |-> red, counts |-> <<>>,
          path |-> "disabled", result |-> AllowAll(cfg, clk)]
    ELSE CheckEnabled(mem, red, client, fallback, limit_type, limit_value, cfg, clk, outcome)

\* check_rate_limit entered with a client attached: now is read, the batch is
\* queued and sent, and the call is suspended in pipe.execute(); the store
\* applies the batch or not; answered says whether its answer, counts or an
\* error, is already on its way to the call
send_check(subject, outcome, answered) ==
    /\ redis_client
    /\ config.enabled
    /\ pending = None
    /\ Len(history) < MaxCalls
    /\ LET p == CheckPipeline(redis_store, subject[1], subject[2], clock)
       IN  /\ redis_store' = IF outcome = "raise" THEN redis_store ELSE p.store
           /\ pending' = Some([subject |-> subject, time |-> clock, outcome |-> outcome,
                               counts |-> p.counts, answered |-> answered])
    /\ UNCHANGED <<clock, advances, redis_client, fallback_to_memory, memory_store,
                   config, history, breaker_vars, status_log, asking, streams, gate_log, tasks>>

\* the call is suspended and nothing has come back from the store
begin_check(subject, outcome) == send_check(subject, outcome, FALSE)

\* the store's answer, counts or an error, reaches the awaiting call
store_answers ==
    /\ pending # None
    /\ ~pending[1].answered
    /\ pending' = Some([pending[1] EXCEPT !.answered = TRUE])
    /\ UNCHANGED <<clock, advances, limiter_vars, breaker_vars, status_log, asking, streams,
                   gate_log, tasks>>

\* the await is over: the counts are compared, or the except branch runs now
check_returns ==
    /\ pending # None
    /\ pending[1].answered
    /\ LET call == pending[1]
           key == MemoryKey(call.subject[1], call.subject[2])
           r == IF call.outcome = "ok"
                THEN [memory_store |-> memory_store, redis_store |-> redis_store,
                      counts |-> call.counts, path |-> "redis",
                      result |-> RedisResult(call.counts, config, call.time)]
                ELSE OnBackendError(memory_store, redis_store, fallback_to_memory, key,
                                    config, clock)
       IN  /\ memory_store' = r.memory_store
           /\ history' = Append(history,
                  [subject |-> call.subject, time |-> call.time, path |-> r.path,
                   returned |-> clock,
                   outcome |-> call.outcome, raised |-> call.outcome # "ok",
                   counts |-> r.counts, result |-> r.result,
                   memory_before |-> memory_store, memory_after |-> r.memory_store])
    /\ pending' = None
    /\ UNCHANGED <<clock, advances, redis_client, fallback_to_memory, redis_store, config,
                   breaker_vars, status_log, asking, streams, gate_log, tasks>>

\* the checks that have reached the counters: those returned and the one
\* suspended after sending its batch
Begun == Len(history) + IF pending = None THEN 0 ELSE 1

\* one call of check_rate_limit for the subject, the store treating its batch
\* as outcome says and answering: with a client attached and the config
\* enabled the call is suspended in pipe.execute() and returns in a later
\* step, check_returns, after whatever the event loop runs in between; the
\* disabled path and the local check have no suspension point and return at
\* once
check_rate_limit(subject, outcome) ==
    IF redis_client /\ config.enabled
    THEN send_check(subject, outcome, TRUE)
    ELSE /\ Len(history) < MaxCalls
         /\ outcome = "ok"
         /\ LET r == Check(memory_store, redis_store, redis_client, fallback_to_memory,
                           subject[1], subject[2], config, clock, outcome)
            IN  /\ memory_store' = r.memory_store
                /\ redis_store' = r.redis_store
                /\ history' = Append(history,
                       [subject |-> subject, time |-> clock, path |-> r.path,
                        returned |-> clock,
                        outcome |-> outcome, raised |-> FALSE,
                        counts |-> r.counts, result |-> r.result,
                        memory_before |-> memory_store,
                        memory_after |-> r.memory_store])
         /\ UNCHANGED <<clock, advances, redis_client, fallback_to_memory, config,
                        breaker_vars, gate_vars>>

----------------------------------------------------------------------------
(* The clock *)

\* steps of a tenth of a second, just under half a minute and half a minute
Deltas == {1, Ticks(30) - 1, Ticks(30)}
\* the distributed backend reads whole seconds
WholeDeltas == {Ticks(30)}

\* time passes; the store drops the keys whose TTL has run out
Advance(d) ==
    /\ advances < MaxAdvances
    /\ advances' = advances + 1
    /\ clock' = clock + d
    /\ redis_store' = RedisLive(redis_store, clock + d)
    /\ UNCHANGED <<redis_client, fallback_to_memory, memory_store, config, history,
                   breaker_vars, gate_vars>>

----------------------------------------------------------------------------
(* Initial states *)

EmptyStore == [k \in {} |-> <<>>]

\* clock values just before a minute, an hour and a day bucket end
StartTimes == {0, Ticks(HourSeconds - MinuteSeconds), Ticks(DaySeconds - MinuteSeconds)}

WindowSizes == {30, DefaultWindowSize}

\* CircuitBreaker(failure_threshold, recovery_timeout), no call made yet
BreakerInit(thresholds, timeouts) ==
    /\ failure_threshold \in thresholds
    /\ recovery_timeout \in timeouts
    /\ failure_count = 0
    /\ last_failure_time = None
    /\ state = "closed"
    /\ breaker_log = [ops |-> 0, op |-> "none", result |-> FALSE, time |-> 0,
                      before |-> "closed", prev |-> "none", prev_result |-> FALSE,
                      failures |-> 0, total |-> 0, failed_at |-> None, passes |-> 0,
                      reopened_at |-> None]

DefaultFailureThreshold == 5
DefaultRecoveryTimeout == 60

\* self._circuit_breaker = CircuitBreaker()
BreakerIdle == BreakerInit({DefaultFailureThreshold}, {DefaultRecoveryTimeout})

\* a coroutine slot with no call in it
IdleTask == [pc |-> "idle", time |-> 0, seen |-> <<>>, counts |-> <<>>]

\* no status call made, no check awaiting the store, no request handled
GateIdle ==
    /\ status_log = [calls |-> 0, subject |-> <<>>, time |-> 0, answered_at |-> 0,
                     returned |-> 0, first_answered_at |-> 0, checks |-> 0,
                     status |-> <<>>, run |-> 0, first |-> <<>>, first_time |-> 0,
                     memory_first |-> <<>>, redis_first |-> <<>>,
                     raised |-> FALSE, answer |-> <<>>]
    /\ pending = None
    /\ asking = None
    /\ streams = 0
    /\ tasks = [c \in 1..MaxTasks |-> IdleTask]
    /\ gate_log = [requests |-> 0, event |-> "none", time |-> 0, breaker_open |-> FALSE,
                   rejected_by |-> "none", checked |-> <<>>, memory_before |-> <<>>,
                   memory_after |-> <<>>, started |-> FALSE, raised |-> 0, status |-> 0,
                   outcome |-> "none", reported |-> "none", opened_at |-> None]

LimiterInit(clients, fallbacks, configs) ==
    /\ advances = 0
    /\ GateIdle
    /\ redis_client \in clients
    /\ fallback_to_memory \in fallbacks
    /\ memory_store = EmptyStore
    /\ redis_store = EmptyStore
    /\ config \in configs
    /\ history = <<>>
    /\ BreakerIdle

----------------------------------------------------------------------------
(* The local backend alone: rate_limiter = RateLimiter() *)

LocalConfigs ==
    {RateLimitConfig(n, 1000, 10000, ws, TRUE) : n \in 1..MaxLimit, ws \in WindowSizes}

InitLocal ==
    /\ clock = 0
    /\ LimiterInit({FALSE}, {TRUE}, LocalConfigs)

NextLocal ==
    \/ check_rate_limit(<<"user", "u1">>, "ok")
    \/ \E d \in Deltas : Advance(d)

SpecLocal == InitLocal /\ [][NextLocal]_vars

----------------------------------------------------------------------------
(* What the calls made so far show *)

\* the calls made for a subject, in order
CallsOf(subject) == SelectSeq(history, LAMBDA r : r.subject = subject)

\* how many of the calls h[lo..hi] were admitted with a timestamp in (after, upto]
AdmittedBetween(h, lo, hi, after, upto) ==
    Cardinality({j \in lo..hi : /\ h[j].result.allowed
                                /\ h[j].time > after
                                /\ h[j].time <= upto})

\* C1: on the local backend with requests_per_minute = N >= 1, the checks of one
\* subject admitted within any window_size seconds (an interval open at its old
\* end) number at most N, and a check that finds N admitted timestamps inside
\* its window is denied.
LocalWindowNeverExceeded ==
    \A s \in Subjects :
        LET h == CallsOf(s)
            w == Ticks(config.window_size)
        IN  \A i \in 1..Len(h) :
                /\ h[i].result.allowed =>
                     AdmittedBetween(h, 1, i, h[i].time - w, h[i].time)
                        <= config.requests_per_minute
                /\ AdmittedBetween(h, 1, i - 1, h[i].time - w, h[i].time)
                        >= config.requests_per_minute
                     => ~h[i].result.allowed

\* a check was denied on a full window and a later one admitted after a
\* timestamp left the window
LocalWindowRolledOver ==
    LET h == CallsOf(<<"user", "u1">>)
    IN  \E i, j \in 1..Len(h) :
            /\ i < j
            /\ ~h[i].result.allowed
            /\ h[j].result.allowed
            /\ h[j].time - h[1].time >= Ticks(config.window_size)

\* C2: starting from an empty log, of N+1 consecutive checks of a subject made
\* within one window (window_size seconds, 60 by default) the first N are
\* admitted and the (N+1)th is denied.
FirstNAdmittedThenDenied ==
    \A s \in Subjects :
        LET h == CallsOf(s)
            n == config.requests_per_minute
        IN  \A i \in 1..Len(h) :
                (/\ MemoryLog(h[i].memory_before, MemoryKey(s[1], s[2])) = <<>>
                 /\ i + n <= Len(h)
                 /\ h[i + n].time - h[i].time < Ticks(config.window_size))
                => /\ \A j \in i..(i + n - 1) : h[j].result.allowed
                   /\ ~h[i + n].result.allowed

\* two checks were admitted and a third denied inside one 60-second window
ThirdCheckDenied ==
    LET h == CallsOf(<<"user", "u1">>)
    IN  /\ config.requests_per_minute = 2
        /\ config.window_size = DefaultWindowSize
        /\ Len(h) >= 3
        /\ h[3].time - h[1].time < Ticks(MinuteSeconds)
        /\ h[3].time > h[1].time
        /\ h[2].result.allowed
        /\ ~h[3].result.allowed

----------------------------------------------------------------------------
(* The distributed backend with a store that always answers *)

RedisConfigs ==
    {RateLimitConfig(m, h, d, DefaultWindowSize, TRUE) :
        m \in 1..MaxLimit, h \in 1..MaxLimit, d \in 1..MaxLimit}

InitRedis ==
    /\ clock \in StartTimes
    /\ LimiterInit({TRUE}, {TRUE}, RedisConfigs)

\* the largest of the three thresholds of a config
LargestThreshold(cfg) ==
    Max2(cfg.requests_per_minute, Max2(cfg.requests_per_hour, cfg.requests_per_day))

\* checks up to one past the largest threshold of the config
NextRedis ==
    \/ \E s \in Subjects : Begun <= LargestThreshold(config) /\ check_rate_limit(s, "ok")
    \/ check_returns
    \/ \E d \in WholeDeltas : Advance(d)

SpecRedis == InitRedis /\ [][NextRedis]_vars

\* the bucket of a window (length in seconds) that a clock value falls in
Bucket(t, window_seconds) == IntTime(t) \div window_seconds

\* how many of the calls h[1..upto] fall in the same bucket as h[upto]
CallsInBucket(h, upto, window_seconds) ==
    Cardinality({j \in 1..upto :
        Bucket(h[j].time, window_seconds) = Bucket(h[upto].time, window_seconds)})

\* how many of the calls of h admitted fall in bucket b
AdmittedInBucket(h, b, window_seconds) ==
    Cardinality({j \in 1..Len(h) :
        h[j].result.allowed /\ Bucket(h[j].time, window_seconds) = b})

\* C3: on the distributed backend with a store that answers, the checks of a
\* subject admitted in one minute, hour or day bucket never exceed the
\* threshold of that window, and a check is admitted only if its three
\* post-increment counts, the calls made in its buckets so far, are within
\* the thresholds.
BucketsNeverExceeded ==
    \A s \in Subjects :
        LET h == CallsOf(s)
        IN  \A i \in 1..Len(h) :
                /\ h[i].path = "redis"
                /\ h[i].counts = <<CallsInBucket(h, i, MinuteSeconds),
                                   CallsInBucket(h, i, HourSeconds),
                                   CallsInBucket(h, i, DaySeconds)>>
                /\ h[i].result.allowed =>
                     /\ h[i].counts[1] <= config.requests_per_minute
                     /\ h[i].counts[2] <= config.requests_per_hour
                     /\ h[i].counts[3] <= config.requests_per_day
                /\ AdmittedInBucket(h, Bucket(h[i].time, MinuteSeconds), MinuteSeconds)
                     <= config.requests_per_minute
                /\ AdmittedInBucket(h, Bucket(h[i].time, HourSeconds), HourSeconds)
                     <= config.requests_per_hour
                /\ AdmittedInBucket(h, Bucket(h[i].time, DaySeconds), DaySeconds)
                     <= config.requests_per_day

\* a check was denied on the hour count alone, in a fresh minute bucket
HourBucketExhausted ==
    \E s \in Subjects :
        LET h == CallsOf(s)
        IN  \E i \in 1..Len(h) :
                /\ ~h[i].result.allowed
                /\ h[i].counts[1] = 1
                /\ h[i].counts[2] > config.requests_per_hour
                /\ h[i].counts[3] <= config.requests_per_day

----------------------------------------------------------------------------
(* The facade over both backends, with a store that may fail *)

FacadeConfigs ==
    {RateLimitConfig(n, 1000, 10000, DefaultWindowSize, en) :
        n \in 0..MaxLimit, en \in BOOLEAN}

Init ==
    /\ clock = 0
    /\ LimiterInit(BOOLEAN, BOOLEAN, FacadeConfigs)

\* checks up to two past the minute threshold, the store treating each
\* batch in any of its ways
Next ==
    \/ \E o \in StoreOutcomes :
          Begun <= config.requests_per_minute + 1 /\ check_rate_limit(<<"user", "u1">>, o)
    \/ check_returns
    \/ \E d \in WholeDeltas : Advance(d)

Spec == Init /\ [][Next]_vars

\* C4: with enabled=false every check is admitted, on every backend
\* configuration, whatever the thresholds and however many calls came before.
DisabledAlwaysAllows ==
    ~config.enabled => \A i \in 1..Len(history) : history[i].result.allowed

\* a disabled limiter with a distributed client admitted more checks in one
\* instant than requests_per_minute
DisabledBeyondQuota ==
    /\ ~config.enabled
    /\ redis_client
    /\ Len(history) > config.requests_per_minute + 1
    /\ history[Len(history)].time = history[1].time
    /\ history[Len(history)].result.allowed

\* C5: with a distributed client and fallback_to_memory=true, a check whose
\* backend call raised returns the result the local backend computes for the
\* subject, config and time, and leaves the local log as a local check does.
\* The time is the one the except branch runs at, when the suspended call is
\* resumed with the exception: _check_memory_rate_limit reads the clock itself.
FallbackIsLocalCheck ==
    \A i \in 1..Len(history) :
        LET r == history[i]
            m == CheckMemoryRateLimit(r.memory_before,
                                      MemoryKey(r.subject[1], r.subject[2]),
                                      config, r.returned)
        IN  (r.raised /\ fallback_to_memory) =>
                /\ r.result = m.result
                /\ r.memory_after = m.store

\* the backend raised on two checks: the local backend logged the first, at
\* the later clock reading the call was resumed at, and denied the second
FallbackDenied ==
    \E i, j \in 1..Len(history) :
        /\ i < j
        /\ fallback_to_memory
        /\ history[i].raised
        /\ history[i].returned > history[i].time
        /\ history[i].result.allowed
        /\ history[i].memory_after # history[i].memory_before
        /\ history[j].raised
        /\ ~history[j].result.allowed

\* C6: with fallback_to_memory=false, a check whose backend call raised is
\* admitted and the local log of every subject is as it was.
FailOpenWithoutFallback ==
    \A i \in 1..Len(history) :
        (history[i].raised /\ ~fallback_to_memory) =>
            /\ history[i].result.allowed
            /\ history[i].memory_after = history[i].memory_before

\* the store denied a check and raised on the next one, which was admitted
FailOpenAfterDenial ==
    \E i \in 2..Len(history) :
        /\ ~fallback_to_memory
        /\ history[i - 1].path = "redis"
        /\ ~history[i - 1].result.allowed
        /\ history[i].time = history[i - 1].time
        /\ history[i].raised
        /\ history[i].result.allowed

----------------------------------------------------------------------------
(* CircuitBreaker *)

\* time.time() - self.last_failure_time > self.recovery_timeout
TimeoutElapsedInverted(now, last, timeout) == now - last < Ticks(timeout)
TimeoutElapsed(now, last, timeout) == now - last > Ticks(timeout)

\* is_open(): the state it leaves and the answer it returns
IsOpenClosingProbe(st, last, timeout, now) ==
    IF st = "open"
    THEN IF TimeoutElapsed(now, last[1], timeout)
         THEN [state |-> "half-open", result |-> FALSE]
         ELSE [state |-> "open", result |-> TRUE]
    ELSE [state |-> "closed", result |-> FALSE]
IsOpen(st, last, timeout, now) ==
    IF st = "open"
    THEN IF TimeoutElapsed(now, last[1], timeout)
         THEN [state |-> "half-open", result |-> FALSE]
         ELSE [state |-> "open", result |-> TRUE]
    ELSE [state |-> st, result |-> FALSE]

\* record_success(): the tally and state it leaves
RecordSuccessKeepingState(count, st) == [failure_count |-> 0, state |-> st]
RecordSuccessKeepingCount(count, st) == [failure_count |-> count, state |-> "closed"]
RecordSuccess(count, st) == [failure_count |-> 0, state |-> "closed"]

\* self.failure_count >= self.failure_threshold
ThresholdReachedLate(count, threshold) == count > threshold
ThresholdReached(count, threshold) == count >= threshold

\* record_failure(): the tally, stamp and state it leaves
RecordFailureAtThresholdOnly(count, st, threshold, now) ==
    [failure_count |-> count + 1,
     last_failure_time |-> Some(now),
     state |-> IF count + 1 = threshold THEN "open" ELSE st]
RecordFailure(count, st, threshold, now) ==
    [failure_count |-> count + 1,
     last_failure_time |-> Some(now),
     state |-> IF ThresholdReached(count + 1, threshold) THEN "open" ELSE st]

\* the observation of one more call: what was called, when, on which state,
\* and what it answered
Observed(op, result) ==
    [breaker_log EXCEPT !.ops = @ + 1, !.op = op, !.result = result, !.time = clock,
                        !.before = state, !.prev = breaker_log.op,
                        !.prev_result = breaker_log.result]

is_open ==
    /\ breaker_log.ops < MaxOps
    /\ LET r == IsOpen(state, last_failure_time, recovery_timeout, clock)
       IN  /\ state' = r.state
           /\ breaker_log' = [Observed("is_open", r.result) EXCEPT
                                 !.passes = IF r.result THEN 0 ELSE @ + 1]
    /\ UNCHANGED <<clock, advances, limiter_vars, failure_threshold, recovery_timeout,
                   failure_count, last_failure_time, gate_vars>>

record_success ==
    /\ breaker_log.ops < MaxOps
    /\ LET r == RecordSuccess(failure_count, state)
       IN  /\ failure_count' = r.failure_count
           /\ state' = r.state
    /\ breaker_log' = [Observed("record_success", FALSE) EXCEPT
                          !.failures = 0, !.passes = 0, !.reopened_at = None]
    /\ UNCHANGED <<clock, advances, limiter_vars, failure_threshold, recovery_timeout,
                   last_failure_time, gate_vars>>

record_failure ==
    /\ breaker_log.ops < MaxOps
    /\ LET r == RecordFailure(failure_count, state, failure_threshold, clock)
       IN  /\ failure_count' = r.failure_count
           /\ last_failure_time' = r.last_failure_time
           /\ state' = r.state
    /\ breaker_log' = [Observed("record_failure", FALSE) EXCEPT
                          !.failures = @ + 1, !.total = @ + 1,
                          !.failed_at = Some(clock), !.passes = 0,
                          !.reopened_at = IF state = "half-open" THEN Some(clock) ELSE @]
    /\ UNCHANGED <<clock, advances, limiter_vars, failure_threshold, recovery_timeout,
                   gate_vars>>

\* steps of a tenth of a second, a second and half a minute
BreakerDeltas == {1, Ticks(1), Ticks(30)}

RecoveryTimeouts == {30, DefaultRecoveryTimeout}

InitBreaker ==
    /\ clock = 0
    /\ advances = 0
    /\ redis_client = FALSE
    /\ fallback_to_memory = TRUE
    /\ memory_store = EmptyStore
    /\ redis_store = EmptyStore
    /\ config = RateLimitConfig(60, 1000, 10000, DefaultWindowSize, TRUE)
    /\ history = <<>>
    /\ GateIdle
    /\ BreakerInit(1..MaxThreshold, RecoveryTimeouts)

NextBreaker ==
    \/ is_open
    \/ record_success
    \/ record_failure
    \/ \E d \in BreakerDeltas : Advance(d)

SpecBreaker == InitBreaker /\ [][NextBreaker]_vars

\* ticks between the last record_failure() and the last call
SinceFailure == breaker_log.time - breaker_log.failed_at[1]

\* C7: with failure_threshold = K, is_open() answers false after fewer than K
\* record_failure() calls since the last record_success(), and true when asked
\* within recovery_timeout after exactly K of them in a row; failures made
\* before a record_success() do not count.
OpensAtThreshold ==
    breaker_log.op = "is_open" =>
        /\ breaker_log.failures < failure_threshold => ~breaker_log.result
        /\ (/\ breaker_log.failures = failure_threshold
            /\ SinceFailure <= Ticks(recovery_timeout)) => breaker_log.result

\* is_open() answered true after exactly K failures in a row, K >= 2, with
\* earlier failures forgotten by a record_success()
OpenedAfterReset ==
    /\ breaker_log.op = "is_open"
    /\ breaker_log.result
    /\ failure_threshold >= 2
    /\ breaker_log.failures = failure_threshold
    /\ breaker_log.total > breaker_log.failures

\* C8: from every state, record_success() leaves failure_count = 0 and state
\* Closed, and an is_open() made right after it answers false.
SuccessCloses ==
    /\ breaker_log.op = "record_success" =>
          /\ failure_count = 0
          /\ state = "closed"
          /\ ~IsOpen(state, last_failure_time, recovery_timeout, clock).result
    /\ (breaker_log.op = "is_open" /\ breaker_log.prev = "record_success") =>
          ~breaker_log.result

\* record_success() was called on an Open breaker whose recovery_timeout had
\* not elapsed
SuccessOnOpen ==
    /\ breaker_log.op = "record_success"
    /\ breaker_log.before = "open"
    /\ breaker_log.prev = "is_open"
    /\ breaker_log.prev_result
    /\ SinceFailure < Ticks(recovery_timeout)

\* C9: on an Open breaker whose last failure was at T, is_open() at t answers
\* true and leaves it Open while t - T < recovery_timeout, and answers false
\* and makes it HalfOpen once t - T > recovery_timeout.
RecoversAfterTimeout ==
    (breaker_log.op = "is_open" /\ breaker_log.before = "open") =>
        /\ SinceFailure < Ticks(recovery_timeout) =>
              (breaker_log.result /\ state = "open")
        /\ SinceFailure > Ticks(recovery_timeout) =>
              (~breaker_log.result /\ state = "half-open")

\* threshold 3, timeout 60, three failures at t=0: after an is_open() that
\* answered true, is_open() at t=61 answered false and left the breaker HalfOpen
RecoveredAtSixtyOne ==
    /\ failure_threshold = 3
    /\ recovery_timeout = 60
    /\ breaker_log.failures = 3
    /\ breaker_log.failed_at = Some(0)
    /\ breaker_log.op = "is_open"
    /\ breaker_log.prev = "is_open"
    /\ breaker_log.prev_result
    /\ breaker_log.time = Ticks(61)
    /\ ~breaker_log.result
    /\ state = "half-open"

\* C10: while the breaker is HalfOpen at most one is_open() has answered false
\* since the last record_success() or record_failure(): one probe passes.
SingleProbe == state = "half-open" => breaker_log.passes <= 1

\* ---------------------------------------------------------------------------
\* RateLimiter.get_rate_limit_status
\* ---------------------------------------------------------------------------

\* one window of a status answer: count, limit, remaining = max(0, limit - count)
WindowStatusUnclamped(count, limit) ==
    [count |-> count, limit |-> limit, remaining |-> limit - count]
WindowStatus(count, limit) ==
    [count |-> count, limit |-> limit, remaining |-> Max2(0, limit - count)]

\* _get_memory_status: an unknown key reports count 0 and is not created; a
\* known key is pruned in place and its remaining entries are counted
GetMemoryStatusRecording(store, limit_type, limit_value, cfg, now) ==
    LET key == MemoryKey(limit_type, limit_value)
        r == CheckMemoryRateLimit(store, key, cfg, now)
    IN  [store  |-> r.store,
         status |-> [minute |-> WindowStatus(Len(MemoryLog(r.store, key)),
                                             cfg.requests_per_minute),
                     limit_type |-> limit_type, limit_value |-> limit_value]]
GetMemoryStatus(store, limit_type, limit_value, cfg, now) ==
    LET key == MemoryKey(limit_type, limit_value)
        cleaned == CleanOldEntries(store[key], now - Ticks(cfg.window_size))
        after == IF key \in DOMAIN store THEN [store EXCEPT ![key] = cleaned] ELSE store
        count == IF key \in DOMAIN store THEN Len(cleaned) ELSE 0
    IN  [store  |-> after,
         status |-> [minute |-> WindowStatus(count, cfg.requests_per_minute),
                     limit_type |-> limit_type, limit_value |-> limit_value]]

\* the batch of _get_redis_status, applied at clock value clk: three GETs,
\* int(x or 0) of each; the store is left as it was
StatusPipelineIncrementing(store, limit_type, limit_value, clk) ==
    CheckPipeline(store, limit_type, limit_value, clk)
StatusPipeline(store, limit_type, limit_value, clk) ==
    LET now == IntTime(clk)
        s0 == RedisLive(store, clk)
    IN  [store  |-> store,
         counts |-> <<RedisGet(s0, RedisKey(limit_type, limit_value, "minute",
                                            now \div MinuteSeconds)),
                      RedisGet(s0, RedisKey(limit_type, limit_value, "hour",
                                            now \div HourSeconds)),
                      RedisGet(s0, RedisKey(limit_type, limit_value, "day",
                                            now \div DaySeconds))>>]

\* the part of _get_redis_status after pipe.execute() returned the counts
RedisStatus(counts, limit_type, limit_value, cfg) ==
    [minute |-> WindowStatus(counts[1], cfg.requests_per_minute),
     hour |-> WindowStatus(counts[2], cfg.requests_per_hour),
     day |-> WindowStatus(counts[3], cfg.requests_per_day),
     limit_type |-> limit_type, limit_value |-> limit_value]

\* _get_redis_status answered at the clock reading it was called at: the
\* three windows of the current buckets
GetRedisStatus(store, limit_type, limit_value, cfg, clk) ==
    LET p == StatusPipeline(store, limit_type, limit_value, clk)
    IN  [store  |-> p.store,
         status |-> RedisStatus(p.counts, limit_type, limit_value, cfg)]

\* what the store does to one status call
StatusOutcomes == {"ok", "raise"}

\* the error map of the except branch
StatusError == [error |-> "error", fallback |-> TRUE]

\* get_rate_limit_status after pipe.execute(): the windows built from the
\* counts, or, the store having raised, the except branch, which returns the
\* error map and does not turn to the local log
StatusResumedFallingBack(mem, counts, limit_type, limit_value, cfg, outcome, now) ==
    IF outcome = "ok"
    THEN [memory_store |-> mem,
          status |-> RedisStatus(counts, limit_type, limit_value, cfg)]
    ELSE LET r == GetMemoryStatus(mem, limit_type, limit_value, cfg, now)
         IN  [memory_store |-> r.store, status |-> r.status]
StatusResumed(mem, counts, limit_type, limit_value, cfg, outcome, now) ==
    IF outcome = "ok"
    THEN [memory_store |-> mem,
          status |-> RedisStatus(counts, limit_type, limit_value, cfg)]
    ELSE [memory_store |-> mem, status |-> StatusError]

\* get_rate_limit_status called and answered at one clock reading: the shared
\* store when a client is attached, the local log otherwise
GetStatus(mem, red, client, limit_type, limit_value, cfg, clk, outcome) ==
    IF client
    THEN LET p == StatusPipeline(red, limit_type, limit_value, clk)
             r == StatusResumed(mem, p.counts, limit_type, limit_value, cfg, outcome, clk)
         IN  [memory_store |-> r.memory_store,
              redis_store |-> IF outcome = "ok" THEN p.store ELSE red,
              status |-> r.status]
    ELSE LET r == GetMemoryStatus(mem, limit_type, limit_value, cfg, clk)
         IN  [memory_store |-> r.store, redis_store |-> red, status |-> r.status]

\* a run of status calls: same subject, no check between
SameRun(subject, checks) ==
    /\ status_log.run > 0
    /\ status_log.subject = subject
    /\ status_log.checks = checks

\* status_log after one more call has returned status for the subject: the
\* call read the clock at called, and the counters, when no more than checks
\* checks had reached them, at answered_at in the stores mem and red
Logged(subject, status, called, answered_at, checks, mem, red) ==
    LET same == SameRun(subject, checks)
    IN  [raised |-> FALSE, answer |-> <<>>,
         calls |-> status_log.calls + 1, subject |-> subject,
         time |-> called, answered_at |-> answered_at, returned |-> clock,
         checks |-> checks, status |-> status,
         run |-> IF same THEN status_log.run + 1 ELSE 1,
         first |-> IF same THEN status_log.first ELSE status,
         first_time |-> IF same THEN status_log.first_time ELSE called,
         first_answered_at |-> IF same THEN status_log.first_answered_at
                               ELSE answered_at,
         memory_first |-> IF same THEN status_log.memory_first ELSE mem,
         redis_first |-> IF same THEN status_log.redis_first ELSE red]

\* one call of get_rate_limit_status for the subject: with a client attached
\* now is read, the three GETs are queued and sent and the call is suspended
\* in pipe.execute(); the local status has no suspension point
get_rate_limit_status(subject, outcome) ==
    /\ status_log.calls < MaxStatus
    /\ IF redis_client
       THEN /\ asking = None
            /\ asking' = Some([subject |-> subject, time |-> clock, outcome |-> outcome,
                               counts |-> <<>>, answered |-> FALSE, answered_at |-> 0,
                               checks |-> 0, store |-> EmptyStore])
            /\ UNCHANGED <<memory_store, redis_store, status_log>>
       ELSE /\ outcome = "ok"
            /\ \E r \in {GetStatus(memory_store, redis_store, redis_client, subject[1],
                                    subject[2], config, clock, outcome)} :
                  /\ memory_store' = r.memory_store
                  /\ redis_store' = r.redis_store
                  /\ status_log' = Logged(subject, r.status, clock, clock, Begun,
                                          memory_store, redis_store)
            /\ UNCHANGED asking
    /\ UNCHANGED <<clock, advances, redis_client, fallback_to_memory, config, history,
                   breaker_vars, pending, streams, gate_log, tasks>>

\* the store executes the GETs of the suspended call on the keys the call
\* named, or fails
status_answers ==
    /\ asking # None
    /\ ~asking[1].answered
    /\ \E p \in {StatusPipeline(redis_store, asking[1].subject[1], asking[1].subject[2],
                                 asking[1].time)} :
          /\ redis_store' = IF asking[1].outcome = "ok" THEN p.store ELSE redis_store
          /\ asking' = Some([asking[1] EXCEPT
                                !.answered = TRUE, !.answered_at = clock,
                                !.checks = Begun, !.store = redis_store,
                                !.counts = IF asking[1].outcome = "ok" THEN p.counts
                                           ELSE <<>>])
    /\ UNCHANGED <<clock, advances, redis_client, fallback_to_memory, memory_store, config,
                   history, breaker_vars, status_log, pending, streams, gate_log, tasks>>

\* the await is over: the windows are built from the counts, or the except
\* branch returns the error map
status_returns ==
    /\ asking # None
    /\ asking[1].answered
    /\ \E r \in {StatusResumed(memory_store, asking[1].counts, asking[1].subject[1],
                                asking[1].subject[2], config, asking[1].outcome, clock)} :
          /\ memory_store' = r.memory_store
          /\ status_log' =
                IF asking[1].outcome = "ok"
                THEN Logged(asking[1].subject, r.status, asking[1].time,
                            asking[1].answered_at, asking[1].checks, memory_store,
                            asking[1].store)
                ELSE [status_log EXCEPT !.calls = @ + 1, !.raised = TRUE,
                                        !.answer = r.status]
    /\ asking' = None
    /\ UNCHANGED <<clock, advances, redis_client, fallback_to_memory, redis_store, config,
                   history, breaker_vars, pending, streams, gate_log, tasks>>

\* checks and status calls of one route's config, on either backend
StatusConfigs ==
    {RateLimitConfig(n, n + 1, 10000, DefaultWindowSize, TRUE) : n \in 1..MaxLimit}

InitStatus ==
    /\ clock = 0
    /\ LimiterInit(BOOLEAN, {TRUE}, StatusConfigs)

\* a second more than the minute window and the TTL of the minute key
StatusDeltas == {Ticks(61)}

\* the status calls: for the checked subject, the store answering or
\* raising, and for a subject never checked
StatusCalls == {<<<<"user", "u1">>, "ok">>, <<<<"user", "u1">>, "raise">>,
                <<<<"ip", "u1">>, "ok">>}

\* checks up to one past the minute threshold, status calls, and the clock
\* moved past the minute
NextStatus ==
    \/ Begun <= config.requests_per_minute /\ check_rate_limit(<<"user", "u1">>, "ok")
    \/ check_returns
    \/ \E call \in StatusCalls : get_rate_limit_status(call[1], call[2])
    \/ status_answers
    \/ status_returns
    \/ \E d \in StatusDeltas : advances < MaxWaits /\ Advance(d)

SpecStatus == InitStatus /\ [][NextStatus]_vars

\* the windows a status answer reports
Windows(status) == DOMAIN status \cap {"minute", "hour", "day"}

\* the remaining quota a status answer reports, window by window
Remaining(status) == [w \in Windows(status) |-> status[w].remaining]

\* C11: in a run of status calls for one subject with no check in between,
\* every call reports the remaining quota that a first call made at that
\* moment, on the counters as the run found them, reports; calls that read
\* the clock, and whose counters are read, at one clock reading all report
\* the remaining quota the first of them reported.
StatusRepeats ==
    status_log.run >= 2 =>
        /\ Remaining(status_log.status) =
              Remaining(GetStatus(status_log.memory_first,
                                  RedisLive(status_log.redis_first,
                                            status_log.answered_at),
                                  redis_client, status_log.subject[1],
                                  status_log.subject[2], config, status_log.time,
                                  "ok").status)
        /\ (/\ status_log.time = status_log.first_time
            /\ status_log.answered_at = status_log.first_answered_at) =>
              Remaining(status_log.status) = Remaining(status_log.first)

\* a status call repeated at one clock reading for a subject that has used
\* part of its quota, after one of its two admitted checks has left the window
StatusRepeatedAfterUse ==
    /\ status_log.run = 2
    /\ status_log.time = status_log.first_time
    /\ status_log.status.minute.count = 1
    /\ Len(CallsOf(status_log.subject)) = 2
    /\ \A i \in 1..2 : CallsOf(status_log.subject)[i].result.allowed
    /\ status_log.time > 0

\* a recorded call made again on the stores mem and red: sent and resumed
\* at the clock readings it was sent and resumed at, the store treating its
\* batch as it did
Recheck(mem, red, call) ==
    IF config.enabled
    THEN CheckAwaited(mem, red, redis_client, fallback_to_memory, call.subject[1],
                      call.subject[2], config, call.time, call.returned, call.outcome)
    ELSE Check(mem, red, redis_client, fallback_to_memory, call.subject[1],
               call.subject[2], config, call.time, call.outcome)

\* the stores the checks made so far leave when no status call is made:
\* the first n checks of the history applied to empty stores
RECURSIVE Replay(_)
Replay(n) ==
    IF n = 0
    THEN [memory_store |-> EmptyStore, redis_store |-> EmptyStore, result |-> None]
    ELSE LET before == Replay(n - 1)
             call == history[n]
             r == Recheck(before.memory_store, before.redis_store, call)
         IN  [memory_store |-> r.memory_store, redis_store |-> r.redis_store,
              result |-> Some(r.result)]

\* the shared store with the batch of the suspended check, if any, applied
WithPending(red) ==
    IF pending = None \/ pending[1].outcome = "raise"
    THEN red
    ELSE CheckPipeline(red, pending[1].subject[1], pending[1].subject[2],
                       pending[1].time).store

\* C12: status calls consume nothing: every check decides as it does when no
\* status call is made, no counter exists that the checks did not create, and
\* the counters hold no entry the checks did not add.
StatusConsumesNothing ==
    /\ \A n \in 1..Len(history) : Replay(n).result = Some(history[n].result)
    /\ LET r == Replay(Len(history))
       IN  /\ DOMAIN memory_store = DOMAIN r.memory_store
           /\ \A k \in DOMAIN memory_store :
                 /\ Len(memory_store[k]) <= Len(r.memory_store[k])
                 /\ \A i \in 1..Len(memory_store[k]) :
                       \E j \in 1..Len(r.memory_store[k]) :
                          memory_store[k][i] = r.memory_store[k][j]
           /\ RedisLive(redis_store, clock) = RedisLive(WithPending(r.redis_store), clock)

\* a check denied for the quota although status calls, for this subject and
\* for one never checked, came before it and between the checks
DeniedAfterStatusCalls ==
    /\ status_log.calls = MaxStatus
    /\ status_log.checks < Len(history)
    /\ status_log.checks > 0
    /\ ~history[Len(history)].result.allowed

\* ---------------------------------------------------------------------------
\* One subject across window boundaries, on either backend, the store answering
\* ---------------------------------------------------------------------------

\* 0.2 s, 1 s, 29.9 s and 30 s: 59.9 s and 60.1 s after a check are reached
RolloverDeltas == {2, Ticks(1), Ticks(30) - 1, Ticks(30)}

\* an hour threshold the minute threshold can reach, and the default one
RolloverConfigs ==
    {RateLimitConfig(m, h, 10000, DefaultWindowSize, TRUE) :
        m \in 1..MaxLimit, h \in {MaxLimit, 1000}}

InitRollover ==
    /\ clock = 0
    /\ LimiterInit(BOOLEAN, {TRUE}, RolloverConfigs)

NextRollover ==
    \/ check_rate_limit(<<"user", "u1">>, "ok")
    \/ check_returns
    \/ \E d \in RolloverDeltas : Advance(d)

SpecRollover == InitRollover /\ [][NextRollover]_vars

\* the oldest timestamp the local log of a call's subject held after the call
OldestLogged(call) ==
    call.memory_after[MemoryKey(call.subject[1], call.subject[2])][1]

\* a denial that only the minute window explains
MinuteQuotaDenial(call) ==
    /\ ~call.result.allowed
    /\ \/ call.path = "memory"
       \/ /\ call.path = "redis"
          /\ call.counts[1] > config.requests_per_minute
          /\ call.counts[2] <= config.requests_per_hour
          /\ call.counts[3] <= config.requests_per_day

\* the moment 59.9 s into the minute window a call falls in: 59.9 s after the
\* oldest logged timestamp (local), 59.9 s into the minute bucket (distributed)
LateInWindow(call) ==
    IF call.path = "memory"
    THEN call.time = OldestLogged(call) + Ticks(MinuteSeconds) - 1
    ELSE call.time % Ticks(MinuteSeconds) = Ticks(MinuteSeconds) - 1

\* C13: a check denied for the minute quota 59.9 s into the minute window is
\* followed, when the subject's next check comes 0.2 s later as the first of
\* the new window, by an admission, on the local and on the distributed backend.
WindowRollover ==
    \A i \in 1..(Len(history) - 1) :
        /\ MinuteQuotaDenial(history[i])
        /\ LateInWindow(history[i])
        /\ history[i + 1].time = history[i].time + 2
        => history[i + 1].result.allowed

\* C14: on the local backend with requests_per_minute = 2, checks at t = 0, 1, 2
\* are answered allowed, allowed, denied, and the denial carries the seconds
\* until a slot frees, retry_after = 58.
AdmissionScenario ==
    /\ ~redis_client
    /\ config.requests_per_minute = 2
    /\ Len(history) >= 3
    /\ history[1].time = 0
    /\ history[2].time = Ticks(1)
    /\ history[3].time = Ticks(2)
    => /\ history[1].result.allowed
       /\ history[2].result.allowed
       /\ ~history[3].result.allowed
       /\ history[3].result.retry_after = Some(58)

\* C15: on the local backend too, the checks admitted within any hour never
\* exceed requests_per_hour and those admitted within any day never exceed
\* requests_per_day.
LocalHourDayNeverExceeded ==
    \A i \in 1..Len(history) :
        history[i].path = "memory" /\ history[i].result.allowed =>
            /\ AdmittedBetween(history, 1, i, history[i].time - Ticks(HourSeconds),
                               history[i].time) <= config.requests_per_hour
            /\ AdmittedBetween(history, 1, i, history[i].time - Ticks(DaySeconds),
                               history[i].time) <= config.requests_per_day

\* how many of the calls h[1..upto-1] were admitted in the bucket of h[upto]
AdmittedBefore(h, upto, window_seconds) ==
    Cardinality({j \in 1..(upto - 1) :
        /\ h[j].result.allowed
        /\ Bucket(h[j].time, window_seconds) = Bucket(h[upto].time, window_seconds)})

\* C16: a check is denied only if the requests of the subject admitted before
\* it have reached the threshold of a consulted window: the sliding window on
\* the local backend, the minute, hour or day bucket on the distributed one;
\* denied requests are not usage.
NoFalseDenial ==
    \A i \in 1..Len(history) :
        ~history[i].result.allowed =>
            IF history[i].path = "memory"
            THEN AdmittedBetween(history, 1, i - 1,
                                 history[i].time - Ticks(config.window_size),
                                 history[i].time) >= config.requests_per_minute
            ELSE \/ AdmittedBefore(history, i, MinuteSeconds) >= config.requests_per_minute
                 \/ AdmittedBefore(history, i, HourSeconds) >= config.requests_per_hour
                 \/ AdmittedBefore(history, i, DaySeconds) >= config.requests_per_day

\* ---------------------------------------------------------------------------
\* check_rate_limit awaiting the answer of the shared store
\* ---------------------------------------------------------------------------

AwaitConfigs ==
    {RateLimitConfig(n, 1000, 10000, DefaultWindowSize, TRUE) : n \in 1..MaxLimit}

InitAwait ==
    /\ clock = 0
    /\ LimiterInit({TRUE}, BOOLEAN, AwaitConfigs)

NextAwait ==
    \/ \E outcome \in StoreOutcomes : begin_check(<<"user", "u1">>, outcome)
    \/ store_answers
    \/ check_returns
    \/ \E d \in WholeDeltas : Advance(d)

\* the event loop resumes a call whose awaited answer has arrived; nothing
\* makes the store answer
SpecAwait == InitAwait /\ [][NextAwait]_vars /\ WF_vars(check_returns)

\* C17: every check_rate_limit call that has begun eventually returns, also
\* when the store never answers its batch.
EveryCheckReturns == (pending # None) ~> (pending = None)

\* ---------------------------------------------------------------------------
\* BaseAgentHandler.handle_request: breaker, rate limits, validation, stream
\* ---------------------------------------------------------------------------

\* the callers: the value of X-User-ID (absent: "anonymous") and the client
\* address; two users behind one address, one user at two addresses
Clients == {<<"u1", "10.0.0.1">>, <<"anonymous", "10.0.0.1">>, <<"anonymous", "10.0.0.2">>}

\* self.config.route.replace("/agents/", ""): the handler of one route
AgentId == "ringi-system"

\* AgentConfig.requires_auth of the handlers: False by default and for
\* generic-agent, True for ringi-system and stock-reference
RequiresAuth(agent) == agent \in {"ringi-system", "stock-reference"}

\* the handlers whose authenticate_request hook can raise once it runs: the
\* ringi hook raises ValueError without user_role or across departments; the
\* stock hook raises nothing
AuthHookRaises(agent) == agent = "ringi-system"

\* the one value of a singleton: each call's result is computed once and named
Only(S) == CHOOSE x \in S : TRUE

\* _check_rate_limits: User, then IP, then Agent on the global limiter, each
\* only if the one before admitted; nothing when the config is off
CheckRateLimitsAll(mem, red, client, fallback, cfg, user, ip, agent, now) ==
    LET u == Check(mem, red, client, fallback, "user", user, cfg, now, "ok")
        i == Check(u.memory_store, u.redis_store, client, fallback, "ip", ip, cfg, now, "ok")
        a == Check(i.memory_store, i.redis_store, client, fallback, "agent", agent, cfg,
                   now, "ok")
    IN  [memory_store |-> a.memory_store, redis_store |-> a.redis_store,
         checked |-> <<"user", "ip", "agent">>,
         denied_by |-> IF ~u.result.allowed THEN "user"
                       ELSE IF ~i.result.allowed THEN "ip"
                       ELSE IF ~a.result.allowed THEN "agent" ELSE "none"]
CheckRateLimitsRefunding(mem, red, client, fallback, cfg, user, ip, agent, now) ==
    LET u == Check(mem, red, client, fallback, "user", user, cfg, now, "ok")
        i == Check(u.memory_store, u.redis_store, client, fallback, "ip", ip, cfg, now, "ok")
        a == Check(i.memory_store, i.redis_store, client, fallback, "agent", agent, cfg,
                   now, "ok")
    IN  IF ~cfg.enabled
        THEN [memory_store |-> mem, redis_store |-> red, checked |-> <<>>,
              denied_by |-> "none"]
        ELSE IF ~u.result.allowed
        THEN [memory_store |-> u.memory_store, redis_store |-> u.redis_store,
              checked |-> <<"user">>, denied_by |-> "user"]
        ELSE IF ~i.result.allowed
        THEN [memory_store |-> mem, redis_store |-> red,
              checked |-> <<"user", "ip">>, denied_by |-> "ip"]
        ELSE IF ~a.result.allowed
        THEN [memory_store |-> mem, redis_store |-> red,
              checked |-> <<"user", "ip", "agent">>, denied_by |-> "agent"]
        ELSE [memory_store |-> a.memory_store, redis_store |-> a.redis_store,
              checked |-> <<"user", "ip", "agent">>, denied_by |-> "none"]
CheckRateLimits(mem, red, client, fallback, cfg, user, ip, agent, now) ==
    IF ~cfg.enabled
    THEN [memory_store |-> mem, redis_store |-> red, checked |-> <<>>,
          denied_by |-> "none"]
    ELSE Only({
        IF ~u.result.allowed
        THEN [memory_store |-> u.memory_store, redis_store |-> u.redis_store,
              checked |-> <<"user">>, denied_by |-> "user"]
        ELSE Only({
            IF ~i.result.allowed
            THEN [memory_store |-> i.memory_store, redis_store |-> i.redis_store,
                  checked |-> <<"user", "ip">>, denied_by |-> "ip"]
            ELSE Only({
                [memory_store |-> a.memory_store, redis_store |-> a.redis_store,
                 checked |-> <<"user", "ip", "agent">>,
                 denied_by |-> IF a.result.allowed THEN "none" ELSE "agent"] :
                a \in {Check(i.memory_store, i.redis_store, client, fallback,
                             "agent", agent, cfg, now, "ok")}}) :
            i \in {Check(u.memory_store, u.redis_store, client, fallback,
                         "ip", ip, cfg, now, "ok")}}) :
        u \in {Check(mem, red, client, fallback, "user", user, cfg, now, "ok")}})

\* the first two gates of handle_request: is_open(), then _check_rate_limits
GateLimitsFirst(st, last, timeout, mem, red, client, fallback, cfg, user, ip, agent, now) ==
    LET l == CheckRateLimits(mem, red, client, fallback, cfg, user, ip, agent, now)
        o == IsOpen(st, last, timeout, now)
    IN  [state |-> o.state, breaker_open |-> o.result, memory_store |-> l.memory_store,
         redis_store |-> l.redis_store, checked |-> l.checked,
         denied_by |-> IF o.result THEN "none" ELSE l.denied_by]
Gate(st, last, timeout, mem, red, client, fallback, cfg, user, ip, agent, now) ==
    Only({
        IF o.result
        THEN [state |-> o.state, breaker_open |-> TRUE, memory_store |-> mem,
              redis_store |-> red, checked |-> <<>>, denied_by |-> "none"]
        ELSE Only({
            [state |-> o.state, breaker_open |-> FALSE,
             memory_store |-> l.memory_store, redis_store |-> l.redis_store,
             checked |-> l.checked, denied_by |-> l.denied_by] :
            l \in {CheckRateLimits(mem, red, client, fallback, cfg, user, ip, agent,
                                   now)}}) :
        o \in {IsOpen(st, last, timeout, now)}})

\* what is wrong with a request that passed the rate limits
\*   "validation":      input_data.messages is empty (_validate_request)
\*   "validation-hook": the agent's validate_request raises, e.g. the
\*                      ValueError of an empty last message
\*   "authentication":  the handler requires authentication and the request
\*                      has neither X-User-ID nor a valid bearer token
\*   "authentication-hook": the credentials passed and the agent's
\*                      authenticate_request raises, e.g. the ValueError of
\*                      a ringi request without user_role
Faults == {"none", "validation", "validation-hook", "authentication", "authentication-hook"}

\* _authenticate_request runs only when the handler requires authentication.
\* A request without X-User-ID is limited as "anonymous", and only such a
\* request can fail the credential check; the agent's hook runs after it for
\* every caller, identified by header or by token
CanFail(agent, user, fault) ==
    /\ fault = "authentication" => RequiresAuth(agent) /\ user = "anonymous"
    /\ fault = "authentication-hook" => RequiresAuth(agent) /\ AuthHookRaises(agent)

\* which step of handle_request raised: is_open(), a rate limit,
\* _validate_request or its hook, _authenticate_request or its hook, or none
RejectedBy(g, fault) ==
    IF g.breaker_open THEN "breaker"
    ELSE IF g.denied_by # "none" THEN g.denied_by
    ELSE fault

\* the status of the HTTPException the rejecting step raises (0: it raises
\* no HTTPException: nothing, or the ValueError of an agent's hook)
RaisedStatus(rejected_by) ==
    CASE rejected_by = "breaker" -> 503
      [] rejected_by \in {"user", "ip", "agent"} -> 429
      [] rejected_by = "validation" -> 400
      [] rejected_by = "authentication" -> 401
      [] OTHER -> 0

\* the status that leaves handle_request: "except Exception" catches whatever
\* was raised inside the try block, an HTTPException included, and raises a
\* 500 in its place; with nothing raised the streaming response goes out with 200
ResponseStatus(rejected_by) == IF rejected_by = "none" THEN 200 ELSE 500

\* one request through handle_request: every exception of the try block,
\* the 503 and 429 included, reaches record_failure(); otherwise the
\* streaming response is returned and the workflow starts with it
handle_request(user, ip, fault) ==
    /\ gate_log.requests < MaxRequests
    /\ CanFail(AgentId, user, fault)
    /\ \E g \in {Gate(state, last_failure_time, recovery_timeout, memory_store,
                      redis_store, redis_client, fallback_to_memory, config, user, ip,
                      AgentId, clock)} :
       \E rejected_by \in {RejectedBy(g, fault)} :
       \E f \in {RecordFailure(failure_count, g.state, failure_threshold, clock)} :
           /\ rejected_by = "none" => streams < MaxStreams
           /\ memory_store' = g.memory_store
           /\ redis_store' = g.redis_store
           /\ IF rejected_by # "none"
              THEN /\ state' = f.state
                   /\ failure_count' = f.failure_count
                   /\ last_failure_time' = f.last_failure_time
                   /\ streams' = streams
              ELSE /\ state' = g.state
                   /\ streams' = streams + 1
                   /\ UNCHANGED <<failure_count, last_failure_time>>
           /\ gate_log' = [requests |-> gate_log.requests + 1, event |-> "request",
                           time |-> clock, breaker_open |-> g.breaker_open,
                           rejected_by |-> rejected_by, checked |-> g.checked,
                           memory_before |-> memory_store,
                           memory_after |-> g.memory_store,
                           started |-> (rejected_by = "none"),
                           raised |-> RaisedStatus(rejected_by),
                           status |-> ResponseStatus(rejected_by),
                           outcome |-> "none", reported |-> "none",
                           opened_at |->
                               IF rejected_by \notin {"none", "breaker"} /\ f.state = "open"
                               THEN Some(clock)
                               ELSE gate_log.opened_at]
    /\ UNCHANGED <<clock, advances, redis_client, fallback_to_memory, config, history,
                   failure_threshold, recovery_timeout, breaker_log, status_log, asking, pending, tasks>>

\* how the protected workflow of a started request ends
WorkflowOutcomes == {"completed", "exception"}

\* what event_generator reports to the breaker when the stream ends: its
\* finally block calls record_success() whether or not the workflow raised
Reported(outcome) == "success"

\* the stream of a started request ends: the workflow completed or raised, the
\* generator's except branch emitted the error text, and its finally block ran
stream_finishes(outcome) ==
    /\ streams > 0
    /\ streams' = streams - 1
    /\ LET r == RecordSuccess(failure_count, state)
       IN  /\ failure_count' = r.failure_count
           /\ state' = r.state
    /\ gate_log' = [requests |-> gate_log.requests, event |-> "finish", time |-> clock,
                    breaker_open |-> FALSE, rejected_by |-> "none", checked |-> <<>>,
                    memory_before |-> <<>>, memory_after |-> <<>>, started |-> FALSE,
                    raised |-> 0, status |-> 0,
                    outcome |-> outcome, reported |-> Reported(outcome),
                    opened_at |-> None]
    /\ UNCHANGED <<clock, advances, limiter_vars, failure_threshold, recovery_timeout,
                   last_failure_time, breaker_log, status_log, asking, pending, tasks>>

\* 61 s: past the window of the limiter and the recovery timeout of the breaker
GateDeltas == {Ticks(61)}

\* the routes' configs, scaled down, and a route with rate limiting off
GateConfigs ==
    {RateLimitConfig(n, 1000, 10000, DefaultWindowSize, TRUE) : n \in 1..MaxLimit}
        \cup {RateLimitConfig(60, 1000, 10000, DefaultWindowSize, FALSE)}

\* rate_limiter = RateLimiter(); BaseAgentHandler.__init__
InitGate ==
    /\ clock = 0
    /\ LimiterInit({FALSE}, {TRUE}, GateConfigs)

\* the requests one handler receives: each caller with a sound request, the
\* identified caller with either validation fault or failing the agent's
\* authentication hook, and a caller without X-User-ID failing the
\* credential check or, with a valid token, the agent's hook
GateRequests ==
    {<<client, "none">> : client \in Clients}
        \cup {<<<<"u1", "10.0.0.1">>, fault>> :
                  fault \in {"validation", "validation-hook", "authentication-hook"}}
        \cup {<<<<"anonymous", "10.0.0.1">>, fault>> :
                  fault \in {"authentication", "authentication-hook"}}

NextGate ==
    \/ \E request \in GateRequests :
          handle_request(request[1][1], request[1][2], request[2])
    \/ \E outcome \in WorkflowOutcomes : stream_finishes(outcome)
    \/ \E d \in GateDeltas : advances < MaxWaits /\ Advance(d)

SpecGate == InitGate /\ [][NextGate]_vars

\* the local log of a key, whether or not the key exists
LogOf(store, limit_type, limit_value) ==
    MemoryLog(store, MemoryKey(limit_type, limit_value))

\* C18: a request that finds the breaker open consults no rate limit: no
\* counter of any subject exists or holds anything it did not before, and the
\* protected workflow is not started.
OpenBreakerConsumesNothing ==
    gate_log.event = "request" /\ gate_log.breaker_open =>
        /\ gate_log.rejected_by = "breaker"
        /\ gate_log.checked = <<>>
        /\ gate_log.memory_after = gate_log.memory_before
        /\ ~gate_log.started

\* a request rejected by the open breaker although its user, its address and
\* the agent all had quota left
RejectedWhileQuotaLeft ==
    /\ gate_log.event = "request"
    /\ gate_log.breaker_open
    /\ config.enabled
    /\ gate_log.memory_before # EmptyStore
    /\ \A k \in DOMAIN gate_log.memory_before :
          Len(CleanOldEntries(gate_log.memory_before[k],
                              gate_log.time - Ticks(config.window_size)))
             < config.requests_per_minute

\* the limit types in the order _check_rate_limits consults them
CheckOrder == <<"user", "ip", "agent">>

\* the counters of the limit types in types are as they were before the request
Untouched(types) ==
    \A k \in DOMAIN gate_log.memory_before \cup DOMAIN gate_log.memory_after :
        k[1] \in types =>
            /\ k \in DOMAIN gate_log.memory_before
            /\ k \in DOMAIN gate_log.memory_after
            /\ gate_log.memory_after[k] = gate_log.memory_before[k]

\* the check of limit type t admitted the request: its timestamp ends a log
Admitted(t) ==
    \E k \in DOMAIN gate_log.memory_after :
        /\ k[1] = t
        /\ Len(gate_log.memory_after[k]) = Len(MemoryLog(gate_log.memory_before, k)) + 1
           \/ Len(gate_log.memory_after[k])
                 > Len(CleanOldEntries(MemoryLog(gate_log.memory_before, k),
                                       gate_log.time - Ticks(config.window_size)))
        /\ gate_log.memory_after[k][Len(gate_log.memory_after[k])] = gate_log.time

\* C19: the gates run in the order breaker, User, IP, Agent and the first that
\* fails decides: an open breaker leaves every counter alone, a User denial
\* leaves the IP and Agent counters alone, an IP denial comes after the User
\* check admitted and leaves the Agent counter alone, and the Agent check runs
\* only after the User and the IP check admitted.
FirstFailureWins ==
    gate_log.event = "request" =>
        /\ \E n \in 0..3 : gate_log.checked = SubSeq(CheckOrder, 1, n)
        /\ gate_log.rejected_by = "breaker" => Untouched({"user", "ip", "agent"})
        /\ gate_log.rejected_by = "user" =>
              /\ gate_log.checked = <<"user">>
              /\ Untouched({"ip", "agent"})
        /\ gate_log.rejected_by = "ip" =>
              /\ gate_log.checked = <<"user", "ip">>
              /\ Admitted("user")
              /\ Untouched({"agent"})
        /\ gate_log.rejected_by = "agent" => gate_log.checked = CheckOrder
        /\ ~Untouched({"agent"}) \/ gate_log.checked = CheckOrder =>
              /\ Admitted("user")
              /\ Admitted("ip")
        /\ gate_log.started /\ config.enabled =>
              /\ Admitted("user")
              /\ Admitted("ip")
              /\ Admitted("agent")

\* an IP denial for a user who had quota left and whose check was recorded,
\* after an earlier minute's entries had aged out of the logs
IpDeniedAgentSpared ==
    /\ gate_log.event = "request"
    /\ gate_log.rejected_by = "ip"
    /\ gate_log.time > 0
    /\ Admitted("user")
    /\ gate_log.memory_after # gate_log.memory_before
    /\ LogOf(gate_log.memory_after, "agent", AgentId) # <<>>

\* C20: when the stream of a started request ends, the breaker is told what
\* happened: success if the workflow completed, failure if it raised.
RealOutcomeReported ==
    gate_log.event = "finish" =>
        gate_log.reported = IF gate_log.outcome = "completed" THEN "success"
                            ELSE "failure"

\* C21: a request denied by a rate-limit check leaves the handler as a 429 and
\* a request that found the breaker open leaves it as a 503.
RejectionStatusKept ==
    gate_log.event = "request" =>
        /\ gate_log.rejected_by \in {"user", "ip", "agent"} => gate_log.status = 429
        /\ gate_log.rejected_by = "breaker" => gate_log.status = 503

\* ---------------------------------------------------------------------------
\* The facade with thresholds that are zero or negative
\* ---------------------------------------------------------------------------

\* RateLimitConfig validates nothing: any integer is a threshold
ThresholdConfigs ==
    {RateLimitConfig(m, h, 10000, DefaultWindowSize, en) :
        m \in -1..1, h \in {-1, 1000}, en \in BOOLEAN}

InitThresholds ==
    /\ clock = 0
    /\ LimiterInit(BOOLEAN, BOOLEAN, ThresholdConfigs)

NextThresholds ==
    \/ \E outcome \in StoreOutcomes : check_rate_limit(<<"user", "u1">>, outcome)
    \/ check_returns
    \/ \E d \in WholeDeltas : Advance(d)

SpecThresholds == InitThresholds /\ [][NextThresholds]_vars

\* C22: whatever the thresholds and whichever path a check takes (disabled,
\* local, distributed, fallback, fail-open), its result carries remaining >= 0.
RemainingNeverNegative ==
    \A i \in 1..Len(history) : history[i].result.remaining >= 0

\* C23: a status call during which the store raises returns the map marked
\* with the error and fallback = true, and leaves every counter of both
\* stores as it was.
StatusErrorAbsorbed ==
    [][/\ (asking # None /\ asking[1].outcome = "raise" /\ asking' # asking) =>
              /\ memory_store' = memory_store
              /\ redis_store' = redis_store
       /\ (status_log'.calls = status_log.calls + 1 /\ status_log'.raised) =>
              /\ status_log'.answer = StatusError
              /\ memory_store' = memory_store
              /\ redis_store' = redis_store]_vars

\* the store raised during a status call for a subject whose counters it holds
StatusRaisedOnUsedSubject ==
    /\ status_log.raised
    /\ "error" \in DOMAIN status_log.answer
    /\ status_log.calls = MaxStatus
    /\ \E k \in DOMAIN redis_store : redis_store[k].count >= 2

\* ---------------------------------------------------------------------------
\* Concurrent check_rate_limit calls for one subject
\* ---------------------------------------------------------------------------

\* the subject all concurrent calls check
SharedSubject == <<"user", "u1">>

\* the counters a call works on when it runs: those of the moment it runs,
\* since _check_memory_rate_limit reads, prunes and appends without an await
ResumeStale(store, seen) == seen
Resume(store, seen) == store

\* the counts a call decides on after pipe.execute(): the post-increment
\* counts its own batch returned
DecisionCountsReadBefore(returned, seen) == [w \in 1..3 |-> seen[w] + 1]
DecisionCounts(returned, seen) == returned

\* a check_rate_limit coroutine is created; it has not run yet (coroutines
\* are interchangeable, so the free slot of lowest index is taken)
call_check(c) ==
    /\ tasks[c].pc = "idle"
    /\ \A d \in 1..(c - 1) : tasks[d].pc # "idle"
    /\ config.enabled
    /\ Len(history) + Cardinality({d \in 1..MaxTasks : tasks[d].pc # "idle"}) < MaxCalls
    /\ tasks' = [tasks EXCEPT ![c] =
                    [pc |-> "called", time |-> clock, counts |-> <<>>,
                     seen |-> IF redis_client
                              THEN StatusPipeline(redis_store, SharedSubject[1],
                                                  SharedSubject[2], clock).counts
                              ELSE memory_store]]
    /\ UNCHANGED <<clock, advances, limiter_vars, breaker_vars, status_log, asking, pending,
                   streams, gate_log>>

\* local backend: the coroutine runs from its first line to its return in
\* one piece, there being no suspension point on its way
run_check(c) ==
    /\ tasks[c].pc = "called"
    /\ ~redis_client
    /\ \E r \in {CheckMemoryRateLimit(Resume(memory_store, tasks[c].seen),
                                     MemoryKey(SharedSubject[1], SharedSubject[2]),
                                     config, clock)} :
          /\ memory_store' = r.store
          /\ history' = Append(history,
                 [subject |-> SharedSubject, time |-> clock, path |-> "memory",
                  called |-> tasks[c].time,
                  outcome |-> "ok", raised |-> FALSE, counts |-> <<>>,
                  result |-> r.result, memory_before |-> memory_store,
                  memory_after |-> r.store])
    /\ tasks' = [tasks EXCEPT ![c] = IdleTask]
    /\ UNCHANGED <<clock, advances, redis_client, fallback_to_memory, redis_store, config,
                   breaker_vars, status_log, asking, pending, streams, gate_log>>

\* distributed backend: the coroutine reads now, queues its six commands and
\* the store applies them as one batch; the coroutine is suspended in
\* pipe.execute() until the counts come back
execute_batch(c) ==
    /\ tasks[c].pc = "called"
    /\ redis_client
    /\ \E p \in {CheckPipeline(redis_store, SharedSubject[1], SharedSubject[2], clock)} :
          /\ redis_store' = p.store
          /\ tasks' = [tasks EXCEPT ![c].pc = "answered", ![c].time = clock,
                                    ![c].counts = p.counts]
    /\ UNCHANGED <<clock, advances, redis_client, fallback_to_memory, memory_store, config,
                   history, breaker_vars, status_log, asking, pending, streams, gate_log>>

\* distributed backend: the coroutine resumes with the counts and decides
resume_check(c) ==
    /\ tasks[c].pc = "answered"
    /\ \E counts \in {DecisionCounts(tasks[c].counts, tasks[c].seen)} :
          history' = Append(history,
              [subject |-> SharedSubject, time |-> tasks[c].time, path |-> "redis",
               outcome |-> "ok", raised |-> FALSE, counts |-> counts,
               result |-> RedisResult(counts, config, tasks[c].time),
               memory_before |-> memory_store, memory_after |-> memory_store])
    /\ tasks' = [tasks EXCEPT ![c] = IdleTask]
    /\ UNCHANGED <<clock, advances, redis_client, fallback_to_memory, memory_store,
                   redis_store, config, breaker_vars, status_log, asking, pending, streams,
                   gate_log>>

InitConcurrent ==
    /\ clock = 0
    /\ LimiterInit(BOOLEAN, {TRUE}, RolloverConfigs)

NextConcurrent ==
    \/ \E c \in 1..MaxTasks : call_check(c)
    \/ \E c \in 1..MaxTasks : run_check(c)
    \/ \E c \in 1..MaxTasks : execute_batch(c)
    \/ \E c \in 1..MaxTasks : resume_check(c)
    \/ \E d \in GateDeltas : advances < MaxWaits /\ Advance(d)

SpecConcurrent == InitConcurrent /\ [][NextConcurrent]_vars

\* the local checks made so far, in the order they ran
LocalCalls == SelectSeq(history, LAMBDA r : r.path = "memory")

\* C24: concurrent local checks of one subject lose no update and never admit
\* more than requests_per_minute within one window: each check finds in the
\* log every earlier admitted timestamp still inside its window, and the log
\* it leaves holds exactly those and its own if it was admitted.
LocalChecksAtomic ==
    LET h == LocalCalls
        key == MemoryKey(SharedSubject[1], SharedSubject[2])
    IN  \A i \in 1..Len(h) :
            LET inside == AdmittedBetween(h, 1, i, h[i].time - Ticks(config.window_size),
                                          h[i].time)
            IN  /\ Len(h[i].memory_after[key]) = inside
                /\ inside <= config.requests_per_minute
                /\ i > 1 => h[i].memory_before = h[i - 1].memory_after

\* two local checks were in flight together: the second to run had been
\* created before the first ran, and it was denied on the timestamp the first
\* had appended
ConcurrentLocalDenied ==
    /\ ~redis_client
    /\ \E i \in 2..Len(history) :
          /\ history[i].called < history[i - 1].time
          /\ history[i - 1].result.allowed
          /\ ~history[i].result.allowed
          /\ Len(history[i].memory_after[MemoryKey(SharedSubject[1], SharedSubject[2])])
                = config.requests_per_minute

\* the distributed checks made so far, in the order they returned
SharedCalls == SelectSeq(history, LAMBDA r : r.path = "redis")

\* C25: with batches of concurrent callers applied one at a time in any
\* order, every check decides on the post-increment counts of its own batch,
\* which no other check of the same bucket received, and the checks admitted
\* in one minute, hour or day bucket never exceed that window's threshold.
SharedChecksBounded ==
    LET h == SharedCalls
    IN  \A i \in 1..Len(h) :
            /\ \A j \in 1..Len(h) :
                  j # i /\ Bucket(h[j].time, MinuteSeconds) = Bucket(h[i].time, MinuteSeconds)
                     => h[j].counts[1] # h[i].counts[1]
            /\ h[i].result.allowed = ~OverLimit(h[i].counts, config)
            /\ AdmittedInBucket(h, Bucket(h[i].time, MinuteSeconds), MinuteSeconds)
                  <= config.requests_per_minute
            /\ AdmittedInBucket(h, Bucket(h[i].time, HourSeconds), HourSeconds)
                  <= config.requests_per_hour
            /\ AdmittedInBucket(h, Bucket(h[i].time, DaySeconds), DaySeconds)
                  <= config.requests_per_day

\* two batches were applied before either caller resumed, the callers resumed
\* in the opposite order, and the later batch's caller was denied
BatchesOvertaken ==
    /\ redis_client
    /\ \E i \in 2..Len(history) :
          /\ history[i].time = history[i - 1].time
          /\ history[i].counts[1] < history[i - 1].counts[1]
          /\ history[i].result.allowed
          /\ ~history[i - 1].result.allowed
          /\ history[i - 1].counts[1] = config.requests_per_minute + 1

-----------------------------------------------------------------------------
\* The probe after the recovery timeout

\* C26: a record_success() made in half-open leaves the breaker closed with
\* failure_count 0; a record_failure() made in half-open leaves it open with
\* last_failure_time at the time of that failure, and every is_open() asked
\* from then until recovery_timeout has passed answers true.
ProbeDecides ==
    /\ (breaker_log.op = "record_success" /\ breaker_log.before = "half-open") =>
          /\ state = "closed"
          /\ failure_count = 0
    /\ (breaker_log.op = "record_failure" /\ breaker_log.before = "half-open") =>
          /\ state = "open"
          /\ last_failure_time = Some(breaker_log.time)
          /\ breaker_log.reopened_at = Some(breaker_log.time)
    /\ (/\ breaker_log.op = "is_open"
        /\ breaker_log.reopened_at # None
        /\ breaker_log.time - breaker_log.reopened_at[1] <= Ticks(recovery_timeout)) =>
          /\ breaker_log.result
          /\ state = "open"

\* the probe failed and the breaker still answers open some time later
ProbeFailedStillOpen ==
    /\ breaker_log.op = "is_open"
    /\ breaker_log.result
    /\ breaker_log.reopened_at # None
    /\ breaker_log.reopened_at = last_failure_time
    /\ breaker_log.time >= breaker_log.reopened_at[1] + Ticks(1)

\* C27: a call of is_open() leaves failure_count and last_failure_time as
\* they were; the only change of state it makes is from open to half-open, and
\* only when more than recovery_timeout has passed since last_failure_time; a
\* closed or half-open breaker is left as it is; and the answer is true
\* exactly when the state is open and the timeout has not passed.
IsOpenFrame ==
    [][(breaker_log'.ops = breaker_log.ops + 1 /\ breaker_log'.op = "is_open") =>
          /\ failure_count' = failure_count
          /\ last_failure_time' = last_failure_time
          /\ failure_threshold' = failure_threshold
          /\ recovery_timeout' = recovery_timeout
          /\ state' # state =>
                /\ state = "open"
                /\ state' = "half-open"
                /\ clock - last_failure_time[1] > Ticks(recovery_timeout)
          /\ state \in {"closed", "half-open"} => state' = state
          /\ breaker_log'.result =
                (/\ state = "open"
                 /\ clock - last_failure_time[1] <= Ticks(recovery_timeout))]_vars

\* is_open() has been asked on a half-open breaker, which it left half-open
\* with its tally and stamp
HalfOpenAskedAgain ==
    /\ breaker_log.op = "is_open"
    /\ breaker_log.before = "half-open"
    /\ state = "half-open"
    /\ ~breaker_log.result
    /\ failure_count >= failure_threshold
    /\ last_failure_time = breaker_log.failed_at

-----------------------------------------------------------------------------
\* The fields of a result

\* the distributed checks made so far
RedisCalls == SelectSeq(history, LAMBDA r : r.path = "redis" /\ ~r.raised)

\* the length in seconds of the smallest window whose count is over
SmallestOverWindow(counts, cfg) ==
    IF counts[1] > cfg.requests_per_minute THEN MinuteSeconds
    ELSE IF counts[2] > cfg.requests_per_hour THEN HourSeconds
    ELSE DaySeconds

\* seconds from now to the end of the bucket of that length now falls in
SecondsLeftInBucket(now, window_seconds) == window_seconds - (now % window_seconds)

\* C28: a check the distributed backend denies at time now has remaining 0,
\* retry_after equal to the seconds left in the current bucket of the smallest
\* window that is over its threshold, and reset_time = now + retry_after.
DeniedUntilBucketEnd ==
    LET h == RedisCalls
    IN  \A i \in 1..Len(h) :
            ~h[i].result.allowed =>
                LET now == IntTime(h[i].time)
                    left == SecondsLeftInBucket(now, SmallestOverWindow(h[i].counts, config))
                IN  /\ h[i].result.remaining = 0
                    /\ h[i].result.retry_after = Some(left)
                    /\ h[i].result.reset_time = now + left

\* C29: a check the distributed backend admits at time now has remaining equal
\* to the least of threshold - post-increment count over the three windows, and
\* reset_time equal to the start of the next minute bucket, (now // 60 + 1) * 60.
AdmittedUntilNextMinute ==
    LET h == RedisCalls
    IN  \A i \in 1..Len(h) :
            h[i].result.allowed =>
                LET now == IntTime(h[i].time)
                IN  /\ h[i].result.remaining =
                          Min3(config.requests_per_minute - h[i].counts[1],
                               config.requests_per_hour - h[i].counts[2],
                               config.requests_per_day - h[i].counts[3])
                    /\ h[i].result.reset_time = ((now \div MinuteSeconds) + 1) * MinuteSeconds

\* the log of the subject of a local check before and after it, and what
\* pruning at the time of the check leaves of the former
LogBefore(r) == MemoryLog(r.memory_before, MemoryKey(r.subject[1], r.subject[2]))
LogAfter(r) == MemoryLog(r.memory_after, MemoryKey(r.subject[1], r.subject[2]))
Pruned(r) == SelectSeq(LogBefore(r), LAMBDA ts : ts > r.time - Ticks(config.window_size))

\* prune, then deny on count >= requests_per_minute with retry_after =
\* window_size and nothing appended, else append now and admit
PruneThenDecide(r) ==
    IF Len(Pruned(r)) >= config.requests_per_minute
    THEN /\ ~r.result.allowed
         /\ r.result.retry_after = Some(config.window_size)
         /\ LogAfter(r) = Pruned(r)
    ELSE /\ r.result.allowed
         /\ LogAfter(r) = Append(Pruned(r), r.time)

\* C30 as stated: each local check prunes the timestamps not newer than
\* now - window_size; with count the number left, it denies on
\* count >= requests_per_minute with retry_after = window_size and no append,
\* and otherwise appends now and admits with remaining =
\* requests_per_minute - count.
LocalAlgorithmCountBefore ==
    \A i \in 1..Len(LocalCalls) :
        LET r == LocalCalls[i]
        IN  /\ PruneThenDecide(r)
            /\ r.result.allowed =>
                  r.result.remaining = config.requests_per_minute - Len(Pruned(r))

\* C30: each local check prunes the timestamps not newer than
\* now - window_size; with count the number left, it denies on
\* count >= requests_per_minute with retry_after = window_size and no append,
\* and otherwise appends now and admits with remaining =
\* requests_per_minute - (count + 1), the admitted check counted in.
LocalAlgorithm ==
    \A i \in 1..Len(LocalCalls) :
        LET r == LocalCalls[i]
        IN  /\ PruneThenDecide(r)
            /\ r.result.allowed =>
                  r.result.remaining = config.requests_per_minute - (Len(Pruned(r)) + 1)

\* a check was admitted after pruning dropped a timestamp and kept another,
\* and a later check was denied on a full log
PrunedThenAdmitted ==
    /\ Len(history) >= 2
    /\ \E i \in 1..Len(history) :
          /\ history[i].path = "memory"
          /\ history[i].result.allowed
          /\ Len(Pruned(history[i])) >= 1
          /\ Len(Pruned(history[i])) < Len(LogBefore(history[i]))
    /\ ~history[Len(history)].result.allowed
    /\ history[Len(history)].path = "memory"

-----------------------------------------------------------------------------
\* Quota spent at the gate

\* the entries of a log that a check made at clock value now still counts
StillCounted(log, now) == SelectSeq(log, LAMBDA ts : ts > now - Ticks(config.window_size))

\* the checks of a handled request that admitted it: all those consulted but
\* the one that denied
AdmittingChecks(log) ==
    IF log.rejected_by \in {"user", "ip", "agent"}
    THEN SubSeq(log.checked, 1, Len(log.checked) - 1)
    ELSE log.checked

\* C31: quota is never refunded at the gate: in every step each subject's
\* entries that are still inside the window stay counted, in their order; a
\* handled request adds exactly one entry, stamped now, to the subject of each
\* of its checks that admitted, whether or not a later check denied it or
\* validation failed it; and the end of a stream takes nothing back.
QuotaNeverRefunded ==
    [][LET keys == DOMAIN memory_store \cup DOMAIN memory_store'
           old(k) == StillCounted(MemoryLog(memory_store, k), clock')
           new(k) == StillCounted(MemoryLog(memory_store', k), clock')
           grown == {k \in keys : Len(new(k)) = Len(old(k)) + 1}
       IN  /\ \A k \in keys :
                 /\ Len(new(k)) \in {Len(old(k)), Len(old(k)) + 1}
                 /\ SubSeq(new(k), 1, Len(old(k))) = old(k)
           /\ IF gate_log'.requests = gate_log.requests + 1
              THEN LET a == AdmittingChecks(gate_log')
                   IN  /\ Cardinality(grown) = Len(a)
                       /\ \A n \in 1..Len(a) :
                             \E k \in grown : /\ k[1] = a[n]
                                              /\ new(k)[Len(new(k))] = clock
              ELSE grown = {}]_vars

\* a request that the Agent check denied after the User and the IP check had
\* admitted it: both entries are in the logs, next to earlier ones
SpentThenDenied ==
    /\ gate_log.event = "request"
    /\ gate_log.rejected_by = "agent"
    /\ \A t \in {"user", "ip"} :
          \E k \in DOMAIN memory_store :
              /\ k[1] = t
              /\ Len(memory_store[k]) >= 2
              /\ memory_store[k][Len(memory_store[k])] = gate_log.time
              /\ Len(memory_store[k]) = Len(MemoryLog(gate_log.memory_before, k)) + 1

-----------------------------------------------------------------------------
\* The breaker shared by the requests of a route

\* Closed to Open, Open to HalfOpen, HalfOpen to Closed, HalfOpen to Open
BreakerTransitions ==
    {<<"closed", "open">>, <<"open", "half-open">>, <<"half-open", "closed">>,
     <<"half-open", "open">>}

\* C32: the state of the breaker changes only along Closed to Open, Open to
\* HalfOpen, HalfOpen to Closed and HalfOpen to Open; in particular it never
\* goes from Open to Closed directly.
OnlyListedTransitions ==
    [][state' # state => <<state, state'>> \in BreakerTransitions]_vars

-----------------------------------------------------------------------------
\* Recovery of the breaker while requests keep arriving

\* half a minute and a little more: 61 s after the opening is reached in two
\* steps, with room for a request in between
RecoveryDeltas == {Ticks(30), Ticks(31)}

\* one caller, whose requests pass validation or not
NextRecovery ==
    \/ \E fault \in Faults : handle_request("u1", "10.0.0.1", fault)
    \/ \E outcome \in WorkflowOutcomes : stream_finishes(outcome)
    \/ \E d \in RecoveryDeltas : Advance(d)

SpecRecovery == InitGate /\ [][NextRecovery]_vars

\* C33: a request that arrives more than recovery_timeout after the failure
\* that opened the breaker, gate_log.opened_at, is not rejected by the
\* breaker, whatever requests the open breaker rejected in the meantime.
RecoveryNotPostponed ==
    (/\ gate_log.event = "request"
     /\ gate_log.opened_at # None
     /\ gate_log.time - gate_log.opened_at[1] > Ticks(recovery_timeout)) =>
        ~gate_log.breaker_open

\* C34: a request that a User, IP or Agent rate-limit check rejects leaves
\* the breaker's failure_count and last_failure_time as they were, and its
\* state as is_open() left it at the head of the request.
LimitDenialSparesBreaker ==
    [][(/\ gate_log'.requests = gate_log.requests + 1
        /\ gate_log'.rejected_by \in {"user", "ip", "agent"}) =>
          /\ failure_count' = failure_count
          /\ last_failure_time' = last_failure_time
          /\ state' = IsOpen(state, last_failure_time, recovery_timeout, clock).state]_vars

-----------------------------------------------------------------------------
\* What a denied check leaves behind

\* the counters a check or a status call for the subject consults at clock
\* value now: the entries of the local log inside the window, and the counts
\* of the current minute, hour and day bucket
Consulted(mem, red, subject, now) ==
    [log    |-> StillCounted(MemoryLog(mem, MemoryKey(subject[1], subject[2])), now),
     counts |-> StatusPipeline(red, subject[1], subject[2], now).counts]

\* C35: a check_rate_limit call that returns allowed=false leaves the
\* counters consulted for its subject, on either backend, at the values they
\* had before the call: neither the step that sends the batch of a call the
\* counts then deny, nor the step in which a denied call returns, changes them.
DeniedConsumesNothing ==
    [][/\ (/\ pending = None
            /\ pending' # None
            /\ OverLimit(pending'[1].counts, config)) =>
              Consulted(memory_store', redis_store', pending'[1].subject, clock)
                 = Consulted(memory_store, redis_store, pending'[1].subject, clock)
       /\ (/\ Len(history') = Len(history) + 1
            /\ ~history'[Len(history')].result.allowed) =>
              Consulted(memory_store', redis_store', history'[Len(history')].subject,
                        clock)
                 = Consulted(memory_store, redis_store, history'[Len(history')].subject,
                             clock)]_vars

-----------------------------------------------------------------------------
\* Status calls next to checks, with a store that may fail

\* a route's enabled configs, and rate limiting switched off
AgreeConfigs ==
    {RateLimitConfig(n, n + 1, 10000, DefaultWindowSize, TRUE) : n \in 1..MaxLimit}
        \cup {RateLimitConfig(0, 1000, 10000, DefaultWindowSize, FALSE)}

InitAgree ==
    /\ clock = 0
    /\ LimiterInit(BOOLEAN, {TRUE}, AgreeConfigs)

\* checks up to one past the minute threshold, the store answering or
\* raising, status calls, and the clock
NextAgree ==
    \/ \E outcome \in StatusOutcomes :
          Begun <= config.requests_per_minute /\ check_rate_limit(<<"user", "u1">>, outcome)
    \/ get_rate_limit_status(<<"user", "u1">>, "ok")
    \/ check_returns
    \/ status_answers
    \/ status_returns
    \/ \E d \in WholeDeltas : advances < MaxWaits /\ Advance(d)

SpecAgree == InitAgree /\ [][NextAgree]_vars

\* the status answer reports remaining = 0 in at least one window
Exhausted(status) == \E w \in Windows(status) : status[w].remaining = 0

\* a status call and a check made now for the subject, the store treating
\* both alike, agree: exhausted exactly if denied; and each reported window
\* holds the consulted count, the limit and remaining = max(0, limit - count)
AgreeNow(subject, outcome) ==
    LET status == GetStatus(memory_store, redis_store, redis_client, subject[1],
                            subject[2], config, clock, outcome).status
        result == Check(memory_store, redis_store, redis_client, fallback_to_memory,
                        subject[1], subject[2], config, clock, outcome).result
        seen == Consulted(memory_store, redis_store, subject, clock)
        count == [minute |-> IF redis_client THEN seen.counts[1] ELSE Len(seen.log),
                  hour |-> seen.counts[2], day |-> seen.counts[3]]
        limit == [minute |-> config.requests_per_minute,
                  hour |-> config.requests_per_hour, day |-> config.requests_per_day]
    IN  /\ Exhausted(status) <=> ~result.allowed
        /\ \A w \in Windows(status) :
              /\ status[w].count = count[w]
              /\ status[w].limit = limit[w]
              /\ status[w].remaining = (IF limit[w] - count[w] > 0
                                        THEN limit[w] - count[w] ELSE 0)

\* C36 as stated: in every reachable state, for every subject and config,
\* whether the store answers or not, status and check agree.
StatusAgreesAlways ==
    \A subject \in Subjects, outcome \in StatusOutcomes : AgreeNow(subject, outcome)

\* C36: in every reachable state, for every subject and every config with
\* enabled = true, on a backend that answers, get_rate_limit_status reports
\* remaining = 0 in at least one window exactly if a check_rate_limit made at
\* the same instant on the same counters (no batch of another call applied
\* and no clock movement between the two) is denied, and each window it
\* reports has remaining = max(0, limit - count).
StatusAgreesWhenEnabled ==
    config.enabled => \A subject \in Subjects : AgreeNow(subject, "ok")

\* a status call reported an exhausted window with quota left in another, and
\* the check made next, at the same instant, was denied
ExhaustedThenDenied ==
    /\ status_log.calls > 0
    /\ status_log.checks > 0
    /\ Exhausted(status_log.status)
    /\ \E w \in Windows(status_log.status) : status_log.status[w].remaining > 0
    /\ Len(history) = status_log.checks + 1
    /\ history[Len(history)].subject = status_log.subject
    /\ history[Len(history)].time = status_log.time
    /\ history[Len(history)].outcome = "ok"
    /\ ~history[Len(history)].result.allowed

-----------------------------------------------------------------------------
\* One subject's quota across a failover

\* C37: with fallback_to_memory = true and a store that fails and recovers
\* at arbitrary calls, the checks of one subject admitted in one minute
\* bucket, by the distributed backend and by the local fallback together,
\* never exceed requests_per_minute.
FailoverKeepsQuota ==
    (fallback_to_memory /\ config.enabled) =>
        \A i \in 1..Len(history) :
            AdmittedInBucket(history, Bucket(history[i].time, MinuteSeconds), MinuteSeconds)
                <= config.requests_per_minute

-----------------------------------------------------------------------------
\* Two agent routes on the process-wide limiter

\* the ids of two of the registered routes
Routes == {"generic-agent", "ringi-system"}

\* their rate_limit_config, scaled down: the standard limit and a lower one
RouteConfig(route) ==
    IF route = "generic-agent"
    THEN RateLimitConfig(MaxLimit, 1000, 10000, DefaultWindowSize, TRUE)
    ELSE RateLimitConfig(1, 300, 2000, DefaultWindowSize, TRUE)

\* a user at an address, and an anonymous caller at the same address
RouteClients == {<<"u1", "10.0.0.1">>, <<"anonymous", "10.0.0.1">>}

\* _check_rate_limits of the handler of a route, on the shared limiter
route_request(route, user, ip) ==
    /\ Len(history) < MaxCalls
    /\ \E l \in {CheckRateLimits(memory_store, redis_store, redis_client,
                                 fallback_to_memory, RouteConfig(route), user, ip, route,
                                 clock)} :
          /\ memory_store' = l.memory_store
          /\ redis_store' = l.redis_store
          /\ history' = Append(history,
                 [route |-> route, user |-> user, ip |-> ip, time |-> clock,
                  checked |-> l.checked, denied_by |-> l.denied_by])
    /\ UNCHANGED <<clock, advances, redis_client, fallback_to_memory, config,
                   breaker_vars, gate_vars>>

InitRoutes ==
    /\ clock = 0
    /\ LimiterInit({FALSE}, {TRUE}, {RouteConfig("generic-agent")})

NextRoutes ==
    \/ \E route \in Routes, client \in RouteClients :
          route_request(route, client[1], client[2])
    \/ \E d \in WholeDeltas \cup GateDeltas : advances < MaxWaits /\ Advance(d)

SpecRoutes == InitRoutes /\ [][NextRoutes]_vars

\* the local store that the first n requests leave on a limiter that serves
\* the given route alone
RECURSIVE RouteAlone(_, _)
RouteAlone(route, n) ==
    IF n = 0 THEN EmptyStore
    ELSE IF history[n].route # route THEN RouteAlone(route, n - 1)
    ELSE CheckRateLimits(RouteAlone(route, n - 1), EmptyStore, FALSE, TRUE,
                         RouteConfig(route), history[n].user, history[n].ip, route,
                         history[n].time).memory_store

\* C38: the User and the IP check of a request to a route decide as they do
\* on a limiter that has seen the requests to that route alone: the requests
\* made to the other route, under its config, change no decision.
RouteDecidesAlone ==
    \A n \in 1..Len(history) :
        LET call == history[n]
            alone == CheckRateLimits(RouteAlone(call.route, n - 1), EmptyStore, FALSE, TRUE,
                                     RouteConfig(call.route), call.user, call.ip,
                                     call.route, call.time)
        IN  /\ (call.denied_by = "user") <=> (alone.denied_by = "user")
            /\ (call.denied_by = "ip") <=> (alone.denied_by = "ip")

-----------------------------------------------------------------------------
\* Several subjects on one limiter

\* user u1 and the address u1, one value under two types, and user u2
IsolatedSubjects == Subjects \cup {<<"user", "u2">>}

InitSubjects ==
    /\ clock = 0
    /\ LimiterInit(BOOLEAN, {TRUE}, {RateLimitConfig(1, 2, 10000, DefaultWindowSize, TRUE)})

\* checks for the user u1 and for the address u1, one more than the hour
\* threshold, and status calls for the address
NextSubjects ==
    \/ \E subject \in Subjects :
          Begun <= config.requests_per_hour /\ check_rate_limit(subject, "ok")
    \/ get_rate_limit_status(<<"ip", "u1">>, "ok")
    \/ check_returns
    \/ status_answers
    \/ status_returns
    \/ \E d \in WholeDeltas : advances < MaxWaits /\ Advance(d)

SpecSubjects == InitSubjects /\ [][NextSubjects]_vars

\* everything the stores hold for a subject: its local log, if it has one,
\* and its counters in the shared store
CountersOf(mem, red, subject) ==
    [known |-> MemoryKey(subject[1], subject[2]) \in DOMAIN mem,
     log   |-> MemoryLog(mem, MemoryKey(subject[1], subject[2])),
     keys  |-> {<<k, red[k]>> : k \in {j \in DOMAIN red : j[2] = subject[1]
                                                          /\ j[3] = subject[2]}}]

\* the call a step suspends, answers or resumes
Stepping(before, after) == IF after # None THEN after[1] ELSE before[1]

\* the step belongs to a call, a check or a status call, entered, answered,
\* resumed or run in one piece
CallStep ==
    \/ pending' # pending
    \/ asking' # asking
    \/ Len(history') = Len(history) + 1
    \/ status_log'.calls = status_log.calls + 1

\* the call of this step was made for this subject
CalledFor(subject) ==
    /\ pending' # pending => Stepping(pending, pending').subject = subject
    /\ asking' # asking => Stepping(asking, asking').subject = subject
    /\ Len(history') = Len(history) + 1 => history'[Len(history')].subject = subject
    /\ (asking' = asking /\ status_log'.calls = status_log.calls + 1) =>
          status_log'.subject = subject

\* the decision of call n, made on stores that have seen the calls for its
\* subject alone
RECURSIVE SubjectAlone(_, _)
SubjectAlone(subject, n) ==
    IF n = 0
    THEN [memory_store |-> EmptyStore, redis_store |-> EmptyStore, result |-> None]
    ELSE IF history[n].subject # subject THEN SubjectAlone(subject, n - 1)
    ELSE LET before == SubjectAlone(subject, n - 1)
             r == Recheck(before.memory_store, before.redis_store, history[n])
         IN  [memory_store |-> r.memory_store, redis_store |-> r.redis_store,
              result |-> Some(r.result)]

\* C39: every step of a check or a status call for one subject key leaves
\* what the stores hold for every other subject key as it was, on both
\* backends, a key with the same value under another type included; and every
\* check decides as it does when the calls for the other subjects are not made.
SubjectsIsolated ==
    /\ [][CallStep =>
             \E subject \in IsolatedSubjects :
                 /\ CalledFor(subject)
                 /\ \A other \in IsolatedSubjects \ {subject} :
                       CountersOf(memory_store', redis_store', other)
                          = CountersOf(memory_store, redis_store, other)]_vars
    /\ [](\A n \in 1..Len(history) :
             SubjectAlone(history[n].subject, n).result = Some(history[n].result))

\* user u1 was denied on its own counters after the address u1 had been
\* checked and asked for in between, and admitted
NamesakeAdmitted ==
    /\ Len(history) >= 3
    /\ history[1].subject = <<"user", "u1">>
    /\ history[2].subject = <<"ip", "u1">>
    /\ history[3].subject = <<"user", "u1">>
    /\ \A n \in 1..2 : history[n].result.allowed
    /\ ~history[3].result.allowed
    /\ status_log.calls > 0
    /\ status_log.subject = <<"ip", "u1">>
    /\ status_log.checks = 2

-----------------------------------------------------------------------------
\* The breaker's state and its tally

\* C40: with failure_threshold >= 1, after any sequence of is_open(),
\* record_success() and record_failure(): a closed breaker has
\* failure_count < failure_threshold; an open or half-open breaker has
\* failure_count >= failure_threshold and last_failure_time set.
StateMatchesTally ==
    failure_threshold >= 1 =>
        /\ state \in {"closed", "open", "half-open"}
        /\ state = "closed" => failure_count < failure_threshold
        /\ state \in {"open", "half-open"} =>
              /\ failure_count >= failure_threshold
              /\ last_failure_time # None

\* after a record_success() and later failures past the threshold, is_open()
\* on an open breaker compares the clock with the stamp of the last failure
OpenPastThreshold ==
    /\ breaker_log.op = "is_open"
    /\ breaker_log.before = "open"
    /\ failure_count > failure_threshold
    /\ last_failure_time = breaker_log.failed_at
    /\ breaker_log.total > breaker_log.failures

====
